---- MODULE Spec2Model ----
(***************************************************************************)
(* Set operations of sdset over sorted and deduplicated slices.            *)
(*                                                                         *)
(* A slice is a sequence; a cursor (`self.a`, `self.slices[i]`, ...) is    *)
(* the suffix of its input that is still unconsumed.  Every operator is a  *)
(* loop over its cursors: one action of the model is one iteration of      *)
(* that loop (or the code that leaves it).  The operator hands its output  *)
(* to a collector (`output: &mut C where C: Collection`) through calls of   *)
(* `reserve`, `push` and `extend`: `out` is what a Vec holds after these    *)
(* calls and `counter` what a Counter holds after the same calls.  Indexes  *)
(* returned by the search kernels are 0-based, as in the source; sequence   *)
(* positions are 1-based, hence the `+ 1`.                                  *)
(***************************************************************************)
EXTENDS Integers, Sequences, FiniteSets, TLC

VARIABLES
    op,         \* the operator that is run
    ins,        \* its inputs
    cur,        \* its cursors
    out,        \* the contents of the collector
    pc,         \* "new", "enter", "loop" or "done"
    counter,    \* Counter::count of a Counter given the same calls
    ncalls,     \* the number of calls made on the collector
    fail_at,    \* the call that returns Err(C::Error); 0 when no call does
    ret,        \* what extend_collection returned, "running" before it has
    iters,      \* the number of iterations of the main loop made so far
    kept        \* what the caller has kept of the runs completed before

\* the collector and what was returned to the caller
collector == <<out, counter, ncalls, ret>>

vars == <<op, ins, cur, pc, fail_at, iters, kept, kept, collector>>

\* ------------------------------------------------------------------ bounds
\* Elements of the duo inputs are drawn from 1..DuoMaxVal.
DuoMaxVal == 5

\* ------------------------------------------------------------- slice helpers
\* &s[n..]
Drop(s, n) == SubSeq(s, n + 1, Len(s))

\* &s[..n]
Take(s, n) == SubSeq(s, 1, n)

Min2(x, y) == IF x <= y THEN x ELSE y

\* slice.iter().take_while(|&x| x < bound).count()
RECURSIVE TakeWhileLt(_, _)
TakeWhileLt(s, bound) ==
    IF s # <<>> /\ s[1] < bound THEN 1 + TakeWhileLt(Tail(s), bound) ELSE 0

\* a.iter().zip(b.iter()).take_while(|(a, b)| a == b).count()
RECURSIVE ZipEqCount(_, _)
ZipEqCount(a, b) ==
    IF a # <<>> /\ b # <<>> /\ a[1] = b[1]
    THEN 1 + ZipEqCount(Tail(a), Tail(b))
    ELSE 0

\* --------------------------------------------------------------- collectors
\* A call on the collector.  `extend` stands for the closure of that name,
\* which is Collection::extend_from_slice or Collection::extend.
extend(elems) == [call |-> "extend", elems |-> elems]

extend_from_slice(elems) == [call |-> "extend_from_slice", elems |-> elems]

push(elem) == [call |-> "push", elems |-> <<elem>>]

reserve(size) == [call |-> "reserve", elems |-> <<>>, size |-> size]

\* impl Collection<T> for Vec<T>
VecCall(v, c) ==
    IF c.call = "push" THEN Append(v, c.elems[1])
    ELSE IF c.call \in {"extend", "extend_from_slice"} THEN v \o c.elems
    ELSE v

RECURSIVE VecCalls(_, _)
VecCalls(v, cs) ==
    IF cs = <<>> THEN v ELSE VecCalls(VecCall(v, cs[1]), Tail(cs))

\* usize, with UsizeBits bits in place of the 32 or 64 of the target so that
\* usize::MAX is within reach of a few calls
UsizeBits == 3

usize_MAX == 2^UsizeBits - 1

\* faulty variant: usize::wrapping_add
saturating_add_Wrapping(x, y) == (x + y) % (usize_MAX + 1)

\* usize::saturating_add
saturating_add(x, y) == IF x + y > usize_MAX THEN usize_MAX ELSE x + y

\* faulty variant: a run given to extend_from_slice counts for one element
CounterCall_RunAsOne(count, c) ==
    IF c.call = "push" THEN saturating_add(count, 1)
    ELSE IF c.call \in {"extend", "extend_from_slice"} THEN
        saturating_add(count, 1)
    ELSE count

\* impl Collection<T> for Counter<T>; `reserve` is the default method of the
\* trait.
CounterCall(count, c) ==
    IF c.call = "push" THEN saturating_add(count, 1)
    ELSE IF c.call \in {"extend", "extend_from_slice"} THEN
        saturating_add(count, Len(c.elems))
    ELSE count

RECURSIVE CounterCalls(_, _)
CounterCalls(count, cs) ==
    IF cs = <<>> THEN count
    ELSE CounterCalls(CounterCall(count, cs[1]), Tail(cs))

\* ------------------------------------------------------------ search kernels
\* The comparator of every search in the library is `key(x).cmp(target)`;
\* the kernels below therefore work on the sequence `ks` of the keys of the
\* slice and on the target key `t`.

\* [T]::binary_search_by of the standard library: halve the window
\* [left, right) until it is empty or the probe compares Equal.
RECURSIVE BinarySearchWindow(_, _, _, _)
BinarySearchWindow(ks, t, left, right) ==
    IF left >= right THEN [ok |-> FALSE, pos |-> left]
    ELSE LET mid == left + ((right - left) \div 2) IN
         IF ks[mid + 1] < t THEN BinarySearchWindow(ks, t, mid + 1, right)
         ELSE IF ks[mid + 1] > t THEN BinarySearchWindow(ks, t, left, mid)
         ELSE [ok |-> TRUE, pos |-> mid]

binary_search_by(ks, t) == BinarySearchWindow(ks, t, 0, Len(ks))

\* while index < slice.len() && f(&slice[index]) == Ordering::Less { index *= 2 }
RECURSIVE ProbeIndex(_, _, _)
ProbeIndex(ks, t, index) ==
    IF index < Len(ks) /\ ks[index + 1] < t
    THEN ProbeIndex(ks, t, index * 2)
    ELSE index

\* faulty variant: the position found in slice[half_bound..bound] is returned
\* as it is
exponential_search_by_NoHalf(ks, t) ==
    LET index == ProbeIndex(ks, t, 1)
        half_bound == index \div 2
        bound == Min2(index + 1, Len(ks))
        r == binary_search_by(SubSeq(ks, half_bound + 1, bound), t)
    IN  [ok |-> r.ok, pos |-> r.pos]

\* Ok(pos) is [ok |-> TRUE, pos |-> pos], Err(pos) is [ok |-> FALSE, pos |-> pos]
exponential_search_by(ks, t) ==
    LET index == ProbeIndex(ks, t, 1)
        half_bound == index \div 2
        bound == Min2(index + 1, Len(ks))
        r == binary_search_by(SubSeq(ks, half_bound + 1, bound), t)
    IN  [ok |-> r.ok, pos |-> half_bound + r.pos]

\* match exponential_search_by(slice, f) { Ok(pos) | Err(pos) => &slice[pos..] };
\* `ks` are the keys of `slice`
exponential_offset_ge_by(slice, ks, t) ==
    Drop(slice, exponential_search_by(ks, t).pos)

exponential_offset_ge(slice, elem) == exponential_offset_ge_by(slice, slice, elem)

\* exponential_search_by(slice, |x| x.cmp(elem))
exponential_search(slice, elem) == exponential_search_by(slice, elem)

\* --------------------------------------------------------------- reference
\* The sorted sequence of a finite set of integers.
RECURSIVE SortSet(_)
SortSet(S) ==
    IF S = {} THEN <<>>
    ELSE LET m == CHOOSE x \in S : \A y \in S : x <= y
         IN  <<m>> \o SortSet(S \ {m})

Range(s) == {s[i] : i \in DOMAIN s}

\* All strictly increasing sequences over the set Vals.
Sets(Vals) == {SortSet(S) : S \in SUBSET Vals}

\* ------------------------------------------------------------ duo operators
\* One iteration of each loop, as a function of the cursors: the new cursors,
\* the calls made on the collector in their order, and whether the loop is
\* left.
Iter(a, b, emit, brk) == [cur |-> <<a, b>>, emit |-> emit, brk |-> brk]

\* faulty variant: on equal heads only `a` is advanced
DuoUnionBody_KeepB(a, b) ==
    IF a # <<>> /\ b # <<>> THEN
        LET first_a == a[1]
            first_b == b[1]
        IN  IF first_a < first_b THEN
                LET off == TakeWhileLt(a, first_b)
                IN  Iter(Drop(a, off), b, <<extend(Take(a, off))>>, FALSE)
            ELSE IF first_a = first_b THEN
                LET off == ZipEqCount(a, b)
                IN  Iter(Drop(a, off), b, <<extend(Take(a, off))>>, FALSE)
            ELSE
                LET off == TakeWhileLt(b, first_a)
                IN  Iter(a, Drop(b, off), <<extend(Take(b, off))>>, FALSE)
    ELSE Iter(a, b, <<extend(a), extend(b)>>, TRUE)

DuoUnionBody(a, b) ==
    IF a # <<>> /\ b # <<>> THEN
        LET first_a == a[1]
            first_b == b[1]
        IN  IF first_a < first_b THEN
                LET off == TakeWhileLt(a, first_b)
                IN  Iter(Drop(a, off), b, <<extend(Take(a, off))>>, FALSE)
            ELSE IF first_a = first_b THEN
                LET off == ZipEqCount(a, b)
                IN  Iter(Drop(a, off), Drop(b, off), <<extend(Take(a, off))>>, FALSE)
            ELSE
                LET off == TakeWhileLt(b, first_a)
                IN  Iter(a, Drop(b, off), <<extend(Take(b, off))>>, FALSE)
    ELSE Iter(a, b, <<extend(a), extend(b)>>, TRUE)

\* faulty variant: when first_a < first_b, `a` is not moved
DuoIntersectionBody_Stuck(a, b) ==
    IF a # <<>> /\ b # <<>> THEN
        LET first_a == a[1]
            first_b == b[1]
        IN  IF first_a = first_b THEN
                LET off == ZipEqCount(a, b)
                IN  Iter(Drop(a, off), Drop(b, off), <<extend(Take(a, off))>>, FALSE)
            ELSE IF first_a < first_b THEN
                Iter(a, b, <<>>, FALSE)
            ELSE
                Iter(a, exponential_offset_ge(b, first_a), <<>>, FALSE)
    ELSE Iter(a, b, <<>>, TRUE)

\* faulty variant: when first_a > first_b, `a` loses its head and `b` stays
DuoIntersectionBody_AdvanceA(a, b) ==
    IF a # <<>> /\ b # <<>> THEN
        LET first_a == a[1]
            first_b == b[1]
        IN  IF first_a = first_b THEN
                LET off == ZipEqCount(a, b)
                IN  Iter(Drop(a, off), Drop(b, off), <<extend(Take(a, off))>>, FALSE)
            ELSE IF first_a < first_b THEN
                Iter(exponential_offset_ge(a, first_b), b, <<>>, FALSE)
            ELSE
                Iter(Tail(a), b, <<>>, FALSE)
    ELSE Iter(a, b, <<>>, TRUE)

\* faulty variant: a run of equal pairs is emitted one element short
DuoIntersectionBody_ShortRun(a, b) ==
    IF a # <<>> /\ b # <<>> THEN
        LET first_a == a[1]
            first_b == b[1]
        IN  IF first_a = first_b THEN
                LET off == ZipEqCount(a, b)
                IN  Iter(Drop(a, off), Drop(b, off), <<extend(Take(a, off - 1))>>, FALSE)
            ELSE IF first_a < first_b THEN
                Iter(exponential_offset_ge(a, first_b), b, <<>>, FALSE)
            ELSE
                Iter(a, exponential_offset_ge(b, first_a), <<>>, FALSE)
    ELSE Iter(a, b, <<>>, TRUE)

DuoIntersectionBody(a, b) ==
    IF a # <<>> /\ b # <<>> THEN
        LET first_a == a[1]
            first_b == b[1]
        IN  IF first_a = first_b THEN
                LET off == ZipEqCount(a, b)
                IN  Iter(Drop(a, off), Drop(b, off), <<extend(Take(a, off))>>, FALSE)
            ELSE IF first_a < first_b THEN
                Iter(exponential_offset_ge(a, first_b), b, <<>>, FALSE)
            ELSE
                Iter(a, exponential_offset_ge(b, first_a), <<>>, FALSE)
    ELSE Iter(a, b, <<>>, TRUE)

\* faulty variant: the run emitted before `min` includes `min` itself (x <= min)
DuoDifferenceBody_Le(a, b) ==
    IF a # <<>> THEN
        LET first == a[1]
            b1 == exponential_offset_ge(b, first)
        IN  IF b1 # <<>> /\ b1[1] = first THEN
                Iter(Tail(a), Tail(b1), <<>>, FALSE)
            ELSE IF b1 # <<>> THEN
                LET off == TakeWhileLt(a, b1[1] + 1)
                IN  Iter(Drop(a, off), b1, <<extend(Take(a, off))>>, FALSE)
            ELSE
                Iter(a, b1, <<extend(a)>>, TRUE)
    ELSE Iter(a, b, <<>>, TRUE)

DuoDifferenceBody(a, b) ==
    IF a # <<>> THEN
        LET first == a[1]
            b1 == exponential_offset_ge(b, first)
        IN  IF b1 # <<>> /\ b1[1] = first THEN
                Iter(Tail(a), Tail(b1), <<>>, FALSE)
            ELSE IF b1 # <<>> THEN
                LET off == TakeWhileLt(a, b1[1])
                IN  Iter(Drop(a, off), b1, <<extend(Take(a, off))>>, FALSE)
            ELSE
                Iter(a, b1, <<extend(a)>>, TRUE)
    ELSE Iter(a, b, <<>>, TRUE)

\* faulty variant: the common run is emitted instead of dropped
DuoSymmetricDifferenceBody_EmitEq(a, b) ==
    IF a # <<>> /\ b # <<>> THEN
        IF a[1] < b[1] THEN
            LET off == TakeWhileLt(a, b[1])
            IN  Iter(Drop(a, off), b, <<extend(Take(a, off))>>, FALSE)
        ELSE IF a[1] = b[1] THEN
            LET off == ZipEqCount(a, b)
            IN  Iter(Drop(a, off), Drop(b, off), <<extend(Take(a, off))>>, FALSE)
        ELSE
            LET off == TakeWhileLt(b, a[1])
            IN  Iter(a, Drop(b, off), <<extend(Take(b, off))>>, FALSE)
    ELSE IF a # <<>> THEN Iter(a, b, <<extend(a)>>, TRUE)
    ELSE IF b # <<>> THEN Iter(a, b, <<extend(b)>>, TRUE)
    ELSE Iter(a, b, <<>>, TRUE)

DuoSymmetricDifferenceBody(a, b) ==
    IF a # <<>> /\ b # <<>> THEN
        IF a[1] < b[1] THEN
            LET off == TakeWhileLt(a, b[1])
            IN  Iter(Drop(a, off), b, <<extend(Take(a, off))>>, FALSE)
        ELSE IF a[1] = b[1] THEN
            LET off == ZipEqCount(a, b)
            IN  Iter(Drop(a, off), Drop(b, off), <<>>, FALSE)
        ELSE
            LET off == TakeWhileLt(b, a[1])
            IN  Iter(a, Drop(b, off), <<extend(Take(b, off))>>, FALSE)
    ELSE IF a # <<>> THEN Iter(a, b, <<extend(a)>>, TRUE)
    ELSE IF b # <<>> THEN Iter(a, b, <<extend(b)>>, TRUE)
    ELSE Iter(a, b, <<>>, TRUE)

\* ------------------------------------------------------------------ actions
\* The effect of one loop iteration `r` on the operator and on the
\* collector.  Every call is followed by `?`: when a call returns Err the
\* iteration stops there and extend_collection returns this Err.  A call
\* that returns Err has appended nothing.
Apply(r) ==
    LET failed == fail_at \in (ncalls + 1)..(ncalls + Len(r.emit))
        made == IF failed THEN fail_at - ncalls ELSE Len(r.emit)
        done == Take(r.emit, IF failed THEN made - 1 ELSE made)
    IN  /\ cur' = IF failed THEN cur ELSE r.cur
        /\ out' = VecCalls(out, done)
        /\ counter' = CounterCalls(counter, done)
        /\ ncalls' = ncalls + made
        /\ ret' = IF failed THEN "Err" ELSE IF r.brk THEN "Ok" ELSE ret
        /\ pc' = IF failed \/ r.brk THEN "done" ELSE "loop"
        /\ iters' = IF pc = "loop" THEN iters + 1 ELSE iters
        /\ UNCHANGED <<op, ins, fail_at, kept>>

\* The same for a loop whose calls are statements (`extend(output, ..);`):
\* what a call returns is dropped, the loop goes on, and the method
\* returns `()`.
ApplyDiscard(r) ==
    LET n == Len(r.emit)
        done == IF fail_at \in (ncalls + 1)..(ncalls + n)
                THEN Take(r.emit, fail_at - ncalls - 1)
                     \o Drop(r.emit, fail_at - ncalls)
                ELSE r.emit
    IN  /\ cur' = r.cur
        /\ out' = VecCalls(out, done)
        /\ counter' = CounterCalls(counter, done)
        /\ ncalls' = ncalls + n
        /\ ret' = IF r.brk THEN "unit" ELSE ret
        /\ pc' = IF r.brk THEN "done" ELSE "loop"
        /\ iters' = iters + 1
        /\ UNCHANGED <<op, ins, fail_at, kept>>

\* a Vec or a Counter: type Error = Infallible
Infallible ==
    /\ out = <<>>
    /\ counter = 0
    /\ ncalls = 0
    /\ fail_at = 0
    /\ ret = "running"

DuoOps == {"duo_union", "duo_intersection", "duo_difference",
           "duo_symmetric_difference"}

\* Union::new, Intersection::new, Difference::new, SymmetricDifference::new
DuoNew ==
    /\ pc = "new"
    /\ op \in DuoOps
    /\ cur' = <<ins[1], ins[2]>>
    /\ pc' = IF op = "duo_union" THEN "enter" ELSE "loop"
    /\ UNCHANGED <<op, ins, fail_at, iters, kept, collector>>

\* let min_len = cmp::max(self.a.len(), self.b.len()); output.reserve(min_len)?;
DuoUnionEnter ==
    /\ pc = "enter" /\ op = "duo_union"
    /\ Apply(Iter(cur[1], cur[2],
                  <<reserve(IF Len(cur[1]) >= Len(cur[2])
                            THEN Len(cur[1]) ELSE Len(cur[2]))>>, FALSE))

DuoUnionStep ==
    /\ pc = "loop" /\ op = "duo_union"
    /\ Apply(DuoUnionBody(cur[1], cur[2]))

DuoIntersectionStep ==
    /\ pc = "loop" /\ op = "duo_intersection"
    /\ Apply(DuoIntersectionBody(cur[1], cur[2]))

DuoDifferenceStep ==
    /\ pc = "loop" /\ op = "duo_difference"
    /\ Apply(DuoDifferenceBody(cur[1], cur[2]))

DuoSymmetricDifferenceStep ==
    /\ pc = "loop" /\ op = "duo_symmetric_difference"
    /\ Apply(DuoSymmetricDifferenceBody(cur[1], cur[2]))

DuoInit ==
    /\ op \in DuoOps
    /\ ins \in Sets(1..DuoMaxVal) \X Sets(1..DuoMaxVal)
    /\ cur = <<>>
    /\ pc = "new"
    /\ Infallible
    /\ iters = 0
    /\ kept = <<>>

DuoNext ==
    \/ DuoNew
    \/ DuoUnionEnter
    \/ DuoUnionStep
    \/ DuoIntersectionStep
    \/ DuoDifferenceStep
    \/ DuoSymmetricDifferenceStep

SpecDuo == DuoInit /\ [][DuoNext]_vars

\* ---------------------------------------------------------- multi operators
\* Elements of the multi inputs are drawn from 1..MultiMaxVal, and an
\* operator is given at most MaxSlices slices.
MultiMaxVal == 3

MaxSlices == 3

\* Minimums<(usize, &T)>: a pair is <<index, value>>, index 0-based
Nothing == [tag |-> "Nothing"]

One(f) == [tag |-> "One", f |-> f]

Two(f, s) == [tag |-> "Two", f |-> f, s |-> s]

\* faulty variant: once two minimums are held, the second is never replaced
MinimumsMatch_KeepSecond(minimums, current) ==
    LET min == current[2] IN
    IF minimums.tag \in {"One", "Two"} /\ min < minimums.f[2]
        THEN Two(current, minimums.f)
    ELSE IF minimums.tag = "One" /\ min >= minimums.f[2]
        THEN Two(minimums.f, current)
    ELSE IF minimums.tag = "Nothing"
        THEN One(current)
    ELSE minimums

\* the match of two_minimums on (minimums, current), arms in source order
MinimumsMatch(minimums, current) ==
    LET min == current[2] IN
    IF minimums.tag \in {"One", "Two"} /\ min < minimums.f[2]
        THEN Two(current, minimums.f)
    ELSE IF minimums.tag = "One" /\ min >= minimums.f[2]
        THEN Two(minimums.f, current)
    ELSE IF minimums.tag = "Two" /\ min < minimums.s[2]
        THEN Two(minimums.f, current)
    ELSE IF minimums.tag = "Nothing"
        THEN One(current)
    ELSE minimums

\* for (index, slice) in slices.iter().enumerate().filter(|(_, s)| !s.is_empty())
RECURSIVE MinimumsLoop(_, _, _)
MinimumsLoop(slices, index, minimums) ==
    IF index >= Len(slices) THEN minimums
    ELSE LET slice == slices[index + 1] IN
         IF slice = <<>> THEN MinimumsLoop(slices, index + 1, minimums)
         ELSE MinimumsLoop(slices, index + 1,
                           MinimumsMatch(minimums, <<index, slice[1]>>))

two_minimums(slices) == MinimumsLoop(slices, 0, Nothing)

\* for slice in &mut self.slices { if slice.first() == Some(s) { *slice = &slice[1..] } }
DropHeads(slices, s) ==
    [j \in DOMAIN slices |->
        IF slices[j] # <<>> /\ slices[j][1] = s THEN Tail(slices[j]) ELSE slices[j]]

MIter(slices, emit, brk) == [cur |-> slices, emit |-> emit, brk |-> brk]

\* faulty variant: `s` is pushed before the run of the elements below it
MultiUnionBody_PushFirst(slices) ==
    LET m == two_minimums(slices) IN
    IF m.tag = "Two" THEN
        LET i == m.f[1]
            f == m.f[2]
            s == m.s[2]
            off == TakeWhileLt(slices[i + 1], s)
            run == IF f # s THEN <<extend(Take(slices[i + 1], off))>> ELSE <<>>
            sl1 == IF f # s THEN [slices EXCEPT ![i + 1] = Drop(@, off)]
                   ELSE slices
        IN  MIter(DropHeads(sl1, s), <<push(s)>> \o run, FALSE)
    ELSE IF m.tag = "One" THEN MIter(slices, <<extend(slices[m.f[1] + 1])>>, TRUE)
    ELSE MIter(slices, <<>>, TRUE)

\* faulty variant: the head `s` is dropped only from the slice that holds the second minimum
MultiUnionBody_DropOne(slices) ==
    LET m == two_minimums(slices) IN
    IF m.tag = "Two" THEN
        LET i == m.f[1]
            f == m.f[2]
            s == m.s[2]
            off == TakeWhileLt(slices[i + 1], s)
            run == IF f # s THEN <<extend(Take(slices[i + 1], off))>> ELSE <<>>
            sl1 == IF f # s THEN [slices EXCEPT ![i + 1] = Drop(@, off)]
                   ELSE slices
        IN  MIter([sl1 EXCEPT ![m.s[1] + 1] = Tail(@)], run \o <<push(s)>>, FALSE)
    ELSE IF m.tag = "One" THEN MIter(slices, <<extend(slices[m.f[1] + 1])>>, TRUE)
    ELSE MIter(slices, <<>>, TRUE)

MultiUnionBody(slices) ==
    LET m == two_minimums(slices) IN
    IF m.tag = "Two" THEN
        LET i == m.f[1]
            f == m.f[2]
            s == m.s[2]
            off == TakeWhileLt(slices[i + 1], s)
            run == IF f # s THEN <<extend(Take(slices[i + 1], off))>> ELSE <<>>
            sl1 == IF f # s THEN [slices EXCEPT ![i + 1] = Drop(@, off)]
                   ELSE slices
        IN  MIter(DropHeads(sl1, s), run \o <<push(s)>>, FALSE)
    ELSE IF m.tag = "One" THEN MIter(slices, <<extend(slices[m.f[1] + 1])>>, TRUE)
    ELSE MIter(slices, <<>>, TRUE)

\* test_equality: Equal(max) is [equal |-> TRUE, max |-> max]
RECURSIVE TestEqualityLoop(_, _, _, _)
TestEqualityLoop(slices, j, is_equal, max) ==
    IF j > Len(slices) THEN [equal |-> is_equal # 0, max |-> max]
    ELSE LET x == slices[j][1] IN
         TestEqualityLoop(slices, j + 1,
                          IF x # max THEN 0 ELSE is_equal,
                          IF x > max THEN x ELSE max)

\* faulty variant: the flag is not cleared by a head below the running maximum
test_equality_OnlyGreater(slices) ==
    LET mx == CHOOSE x \in {slices[j][1] : j \in DOMAIN slices} :
                  \A j \in DOMAIN slices : slices[j][1] <= x
    IN  [equal |-> slices[1][1] = mx, max |-> mx]

test_equality(slices) == TestEqualityLoop(slices, 1, 1, slices[1][1])

\* for slice in &mut self.slices { *slice = <advance>; if slice.is_empty() { return Ok(()) } }
\* where <advance> is &slice[1..] when the heads are equal and
\* exponential_offset_ge(slice, max) when they are not
RECURSIVE IntersectionAdvance(_, _, _, _)
IntersectionAdvance(slices, j, equal, max) ==
    IF j > Len(slices) THEN [cur |-> slices, ret |-> FALSE]
    ELSE LET s1 == IF equal THEN Tail(slices[j])
                   ELSE exponential_offset_ge(slices[j], max)
             sl == [slices EXCEPT ![j] = s1]
         IN  IF s1 = <<>> THEN [cur |-> sl, ret |-> TRUE]
             ELSE IntersectionAdvance(sl, j + 1, equal, max)

MultiIntersectionBody(slices) ==
    LET e == test_equality(slices)
        r == IntersectionAdvance(slices, 1, e.equal, e.max)
    IN  MIter(r.cur, IF e.equal THEN <<push(e.max)>> ELSE <<>>, r.ret)

\* Vec::swap_remove(i): the last element takes the place of element i
swap_remove(v, i) ==
    [j \in 1..(Len(v) - 1) |-> IF j = i + 1 THEN v[Len(v)] ELSE v[j]]

\* The suffix of `slice` that starts at its first element >= elem.
exponential_offset_ge_maybe(slice, elem) == exponential_offset_ge(slice, elem)

\* while i < self.others.len() { ... }: an Option is <<>> (None) or <<x>> (Some(x))
RECURSIVE DifferenceOthers(_, _, _, _)
DifferenceOthers(others, first, i, minimum) ==
    IF i < Len(others) THEN
        LET o == exponential_offset_ge_maybe(others[i + 1], first)
            others1 == [others EXCEPT ![i + 1] = o]
        IN  IF o # <<>> THEN
                DifferenceOthers(others1, first, i + 1,
                    IF minimum # <<>> /\ ~(o[1] < minimum[1]) THEN minimum
                    ELSE <<o[1]>>)
            ELSE DifferenceOthers(swap_remove(others1, i), first, i, minimum)
    ELSE [others |-> others, minimum |-> minimum]

\* faulty variant: a single slice is not taken as the base
MultiDifferenceNew_NoBase(slices) ==
    LET base == IF Len(slices) >= 2 THEN slices[1] ELSE <<>>
        others == IF Len(slices) < 2 THEN <<>>
                  ELSE SelectSeq(Tail(slices), LAMBDA x : Len(x) > 0)
    IN  <<base>> \o others

\* Difference::new: the first slice is the base, the non-empty rest the others
MultiDifferenceNew(slices) ==
    LET base == IF slices # <<>> THEN slices[1] ELSE <<>>
        others == IF Len(slices) < 2 THEN <<>>
                  ELSE SelectSeq(Tail(slices), LAMBDA x : Len(x) > 0)
    IN  <<base>> \o others

\* faulty variant: only the last of the others decides the minimum
MultiDifferenceBody_LastMin(slices) ==
    LET base == slices[1]
        others == Tail(slices)
    IN  IF base # <<>> THEN
            LET first == base[1]
                r == DifferenceOthers(others, first, 0, <<>>)
                lastmin == IF r.others = <<>> THEN <<>>
                           ELSE <<r.others[Len(r.others)][1]>>
            IN  IF lastmin # <<>> THEN
                    IF lastmin[1] = first THEN
                        MIter(<<Tail(base)>> \o r.others, <<>>, FALSE)
                    ELSE
                        LET off == TakeWhileLt(base, lastmin[1])
                        IN  MIter(<<Drop(base, off)>> \o r.others,
                                  <<extend(Take(base, off))>>, FALSE)
                ELSE MIter(<<base>> \o r.others, <<extend(base)>>, TRUE)
        ELSE MIter(slices, <<>>, TRUE)

\* cur[1] is self.base, Tail(cur) is self.others
MultiDifferenceBody(slices) ==
    LET base == slices[1]
        others == Tail(slices)
    IN  IF base # <<>> THEN
            LET first == base[1]
                r == DifferenceOthers(others, first, 0, <<>>)
            IN  IF r.minimum # <<>> THEN
                    IF r.minimum[1] = first THEN
                        MIter(<<Tail(base)>> \o r.others, <<>>, FALSE)
                    ELSE
                        LET off == TakeWhileLt(base, r.minimum[1])
                        IN  MIter(<<Drop(base, off)>> \o r.others,
                                  <<extend(Take(base, off))>>, FALSE)
                ELSE MIter(<<base>> \o r.others, <<extend(base)>>, TRUE)
        ELSE MIter(slices, <<>>, TRUE)

\* the number of slices whose head is f
CountHeads(slices, f) ==
    Cardinality({j \in DOMAIN slices : slices[j] # <<>> /\ slices[j][1] = f})

\* faulty variant: a head shared by the two minimums is never emitted
MultiSymmetricDifferenceBody_NoOdd(slices) ==
    LET m == two_minimums(slices) IN
    IF m.tag = "Two" THEN
        LET i == m.f[1]
            f == m.f[2]
            s == m.s[2]
        IN  IF f # s THEN
                LET off == TakeWhileLt(slices[i + 1], s)
                IN  MIter([slices EXCEPT ![i + 1] = Drop(@, off)],
                          <<extend(Take(slices[i + 1], off))>>, FALSE)
            ELSE MIter(DropHeads(slices, f), <<>>, FALSE)
    ELSE IF m.tag = "One" THEN MIter(slices, <<extend(slices[m.f[1] + 1])>>, TRUE)
    ELSE MIter(slices, <<>>, TRUE)

MultiSymmetricDifferenceBody(slices) ==
    LET m == two_minimums(slices) IN
    IF m.tag = "Two" THEN
        LET i == m.f[1]
            f == m.f[2]
            s == m.s[2]
        IN  IF f # s THEN
                LET off == TakeWhileLt(slices[i + 1], s)
                IN  MIter([slices EXCEPT ![i + 1] = Drop(@, off)],
                          <<extend(Take(slices[i + 1], off))>>, FALSE)
            ELSE
                LET count == CountHeads(slices, f)
                IN  MIter(DropHeads(slices, f),
                          IF count % 2 # 0 THEN <<push(f)>> ELSE <<>>, FALSE)
    ELSE IF m.tag = "One" THEN MIter(slices, <<extend(slices[m.f[1] + 1])>>, TRUE)
    ELSE MIter(slices, <<>>, TRUE)

MultiOps == {"multi_union", "multi_intersection", "multi_difference",
             "multi_symmetric_difference"}

\* Union::new, Intersection::new, SymmetricDifference::new keep the slices;
\* Difference::new splits them
MultiNew ==
    /\ pc = "new"
    /\ op \in MultiOps
    /\ cur' = IF op = "multi_difference" THEN MultiDifferenceNew(ins) ELSE ins
    /\ pc' = IF op \in {"multi_union", "multi_intersection"} THEN "enter"
             ELSE "loop"
    /\ UNCHANGED <<op, ins, fail_at, iters, kept, collector>>

\* if let Some(slice) = self.slices.first() { output.reserve(slice.len())?; }
MultiUnionEnter ==
    /\ pc = "enter" /\ op = "multi_union"
    /\ Apply(MIter(cur, IF cur # <<>> THEN <<reserve(Len(cur[1]))>> ELSE <<>>,
                   FALSE))

MultiUnionStep ==
    /\ pc = "loop" /\ op = "multi_union"
    /\ Apply(MultiUnionBody(cur))

\* if self.slices.is_empty() { return Ok(()) }
\* if self.slices.iter().any(|s| s.is_empty()) { return Ok(()) }
MultiIntersectionEnter ==
    /\ pc = "enter" /\ op = "multi_intersection"
    /\ Apply(MIter(cur, <<>>,
                   cur = <<>> \/ (\E j \in DOMAIN cur : cur[j] = <<>>)))

MultiIntersectionStep ==
    /\ pc = "loop" /\ op = "multi_intersection"
    /\ Apply(MultiIntersectionBody(cur))

MultiDifferenceStep ==
    /\ pc = "loop" /\ op = "multi_difference"
    /\ Apply(MultiDifferenceBody(cur))

MultiSymmetricDifferenceStep ==
    /\ pc = "loop" /\ op = "multi_symmetric_difference"
    /\ ApplyDiscard(MultiSymmetricDifferenceBody(cur))

\* every list of at most n slices over Vals
SliceLists(Vals, n) == UNION {[1..k -> Sets(Vals)] : k \in 0..n}

\* the inputs of tests::three_slices of multi/difference.rs
ThreeSlices == <<(<<1, 2, 3, 6, 7>>), (<<2, 3, 4>>), (<<3, 4, 5, 7>>)>>

MultiInit ==
    /\ op \in MultiOps
    /\ ins \in SliceLists(1..MultiMaxVal, MaxSlices) \cup {ThreeSlices}
    /\ cur = <<>>
    /\ pc = "new"
    /\ Infallible
    /\ iters = 0
    /\ kept = <<>>

MultiNext ==
    \/ MultiNew
    \/ MultiUnionEnter
    \/ MultiUnionStep
    \/ MultiIntersectionEnter
    \/ MultiIntersectionStep
    \/ MultiDifferenceStep
    \/ MultiSymmetricDifferenceStep

SpecMulti == MultiInit /\ [][MultiNext]_vars

\* --------------------------------------------------------- by-key operators
\* Keys are drawn from 1..MaxKey, a base holds at most MaxBaseLen elements,
\* and the multi operator is given at most MaxOthers other slices.
MaxKey == 3

MaxBaseLen == 3

MaxOthers == 2

\* struct Foo { a: i32, b: u8 } of the examples is the record [a |-> _, b |-> _];
\* let f = |x: &Foo| x.a;
f(x) == x.a

\* let g = |x: &i32| *x;
g(y) == y

\* the keys of a slice of the `b` side, which the comparator of the search sees
Keys(slice) == [i \in DOMAIN slice |-> g(slice[i])]

\* exponential_offset_ge_by(slice, |x| f(x).cmp(b)); both callers pass
\* `&self.g` as the projection
exponential_offset_ge_by_key(slice, b) ==
    exponential_offset_ge_by(slice, Keys(slice), b)

\* self.a.iter().take_while(|&x| (self.f)(x) < min).count()
RECURSIVE TakeWhileKeyLt(_, _)
TakeWhileKeyLt(s, min) ==
    IF s # <<>> /\ f(s[1]) < min THEN 1 + TakeWhileKeyLt(Tail(s), min) ELSE 0

\* faulty variant: `b` is advanced past the matched key, as the plain Difference does
DuoDifferenceByKeyBody_AdvanceB(a, b) ==
    IF a # <<>> THEN
        LET first_a == f(a[1])
            b1 == exponential_offset_ge_by_key(b, first_a)
        IN  IF b1 # <<>> THEN
                IF g(b1[1]) = first_a THEN
                    Iter(Tail(a), Tail(b1), <<>>, FALSE)
                ELSE
                    LET off == TakeWhileKeyLt(a, g(b1[1]))
                    IN  Iter(Drop(a, off), b1, <<extend(Take(a, off))>>, FALSE)
            ELSE Iter(a, b1, <<extend(a)>>, TRUE)
    ELSE Iter(a, b, <<>>, TRUE)

DuoDifferenceByKeyBody(a, b) ==
    IF a # <<>> THEN
        LET first_a == f(a[1])
            b1 == exponential_offset_ge_by_key(b, first_a)
        IN  IF b1 # <<>> THEN
                IF g(b1[1]) = first_a THEN
                    Iter(Tail(a), b1, <<>>, FALSE)
                ELSE
                    LET off == TakeWhileKeyLt(a, g(b1[1]))
                    IN  Iter(Drop(a, off), b1, <<extend(Take(a, off))>>, FALSE)
            ELSE Iter(a, b1, <<extend(a)>>, TRUE)
    ELSE Iter(a, b, <<>>, TRUE)

\* faulty variant: cmp::max in place of cmp::min
ByKeyMinimum_Max(minimum, first) ==
    IF minimum # <<>> /\ first # <<>>
        THEN <<IF minimum[1] >= first[1] THEN minimum[1] ELSE first[1]>>
    ELSE IF minimum = <<>> /\ first # <<>> THEN first
    ELSE minimum

\* minimum = match (minimum, first) { ... }: an Option is <<>> or <<x>>
ByKeyMinimum(minimum, first) ==
    IF minimum # <<>> /\ first # <<>> THEN <<Min2(minimum[1], first[1])>>
    ELSE IF minimum = <<>> /\ first # <<>> THEN first
    ELSE minimum

\* for slice in self.others.iter_mut() { ... }
RECURSIVE ByKeyOthers(_, _, _, _)
ByKeyOthers(others, first, j, minimum) ==
    IF j > Len(others) THEN [others |-> others, minimum |-> minimum]
    ELSE LET o == exponential_offset_ge_by_key(others[j], first)
             fo == IF o # <<>> THEN <<g(o[1])>> ELSE <<>>
         IN  ByKeyOthers([others EXCEPT ![j] = o], first, j + 1,
                         ByKeyMinimum(minimum, fo))

\* cur[1] is self.base, Tail(cur) is self.others
MultiDifferenceByKeyBody(slices) ==
    LET base == slices[1]
        others == Tail(slices)
    IN  IF base # <<>> THEN
            LET first == f(base[1])
                r == ByKeyOthers(others, first, 1, <<>>)
            IN  IF r.minimum # <<>> THEN
                    IF r.minimum[1] = first THEN
                        MIter(<<Tail(base)>> \o r.others, <<>>, FALSE)
                    ELSE
                        LET off == TakeWhileKeyLt(base, r.minimum[1])
                        IN  MIter(<<Drop(base, off)>> \o r.others,
                                  <<extend(Take(base, off))>>, FALSE)
                ELSE MIter(<<base>> \o r.others, <<extend(base)>>, TRUE)
        ELSE MIter(slices, <<>>, TRUE)

ByKeyOps == {"duo_difference_by_key", "multi_difference_by_key"}

\* DifferenceByKey::new of duo and of multi: ins is <<base>> \o others
ByKeyNew ==
    /\ pc = "new"
    /\ op \in ByKeyOps
    /\ cur' = ins
    /\ pc' = "loop"
    /\ UNCHANGED <<op, ins, fail_at, iters, kept, collector>>

DuoDifferenceByKeyStep ==
    /\ pc = "loop" /\ op = "duo_difference_by_key"
    /\ Apply(DuoDifferenceByKeyBody(cur[1], cur[2]))

MultiDifferenceByKeyStep ==
    /\ pc = "loop" /\ op = "multi_difference_by_key"
    /\ Apply(MultiDifferenceByKeyBody(cur))

\* The bases: for every non-decreasing sequence of at most n keys, the
\* slice of Foo with these keys in which every element is told apart from
\* the others of its run by its second field.
Bases(n) ==
    {[i \in DOMAIN ks |-> [a |-> ks[i], b |-> i]] :
        ks \in {s \in UNION {[1..k -> 1..MaxKey] : k \in 0..n} :
                   \A i \in 1..(Len(s) - 1) : s[i] <= s[i + 1]}}

Foo(a, b) == [a |-> a, b |-> b]

\* the slices of the tests and of the doc examples
DuoRelations ==
    <<(<<Foo(1, 6), Foo(1, 7), Foo(1, 8), Foo(2, 9), Foo(2, 10)>>),
      (<<1, 3, 4, 5>>)>>

DuoExample ==
    <<(<<Foo(1, 6), Foo(1, 7), Foo(1, 8), Foo(2, 9), Foo(2, 10), Foo(3, 10)>>),
      (<<1, 3, 4, 5>>)>>

MultiExample ==
    <<(<<Foo(1, 6), Foo(1, 7), Foo(1, 8), Foo(2, 9), Foo(2, 10), Foo(4, 10)>>),
      (<<2, 3, 5, 7>>), (<<4, 6, 7>>)>>

ByKeyInit ==
    /\ \/ /\ op = "duo_difference_by_key"
          /\ ins \in (Bases(MaxBaseLen) \X Sets(1..MaxKey))
                     \cup {DuoRelations, DuoExample}
       \/ /\ op = "multi_difference_by_key"
          /\ \/ \E base \in Bases(MaxBaseLen),
                   others \in SliceLists(1..MaxKey, MaxOthers) :
                     ins = <<base>> \o others
             \/ ins = MultiExample
    /\ cur = <<>>
    /\ pc = "new"
    /\ Infallible
    /\ iters = 0
    /\ kept = <<>>

ByKeyNext ==
    \/ ByKeyNew
    \/ DuoDifferenceByKeyStep
    \/ MultiDifferenceByKeyStep

SpecByKey == ByKeyInit /\ [][ByKeyNext]_vars

\* ------------------------------------------------------- Set and SetBuf
\* for pair in slice.windows(2) { match pair[0].cmp(&pair[1]) { ... } } Ok(())
\* from the pair at positions i, i + 1 on
RECURSIVE WindowsLoop(_, _)
WindowsLoop(slice, i) ==
    IF i >= Len(slice) THEN "Ok"
    ELSE IF slice[i] < slice[i + 1] THEN WindowsLoop(slice, i + 1)
    ELSE IF slice[i] = slice[i + 1] THEN "NotDedup"
    ELSE "NotSort"

\* faulty variant: the error is that of the last pair that is not increasing
is_sort_dedup_LastPair(slice) ==
    LET bad == {i \in 1..(Len(slice) - 1) : slice[i] >= slice[i + 1]}
    IN  IF bad = {} THEN "Ok"
        ELSE LET i == CHOOSE k \in bad : \A j \in bad : j <= k
             IN  IF slice[i] = slice[i + 1] THEN "NotDedup" ELSE "NotSort"

\* is_sort_dedup: Ok(()) is "Ok", Err(Error::NotDedup) is "NotDedup" and
\* Err(Error::NotSort) is "NotSort"; slice.windows(2) yields the adjacent
\* pairs from the start of the slice.
is_sort_dedup(slice) == WindowsLoop(slice, 1)

\* Result<_, Error>
Ok(value) == [ok |-> TRUE, value |-> value]

Err(error) == [ok |-> FALSE, error |-> error]

\* SetBuf::new_unchecked(vec): SetBuf(vec)
SetBuf_new_unchecked(vec) == vec

\* SetBuf::new(vec): is_sort_dedup(&vec).map(|_| SetBuf::new_unchecked(vec))
SetBuf_new(vec) ==
    IF is_sort_dedup(vec) = "Ok" THEN Ok(SetBuf_new_unchecked(vec))
    ELSE Err(is_sort_dedup(vec))

\* SetOperation::into_set_buf of an operator that has filled the Vec `vec`
into_set_buf(vec) == SetBuf_new_unchecked(vec)

\* ------------------------------------------- operators on any collector
\* Every duo and multi operator, on inputs over 1..OpsMaxVal (at most
\* OpsMaxSlices slices for a multi operator), driven into a collector
\* whose call number fail_at returns an error; fail_at is at most MaxFail,
\* and 0 stands for the collectors that never fail (Vec, Counter).
OpsMaxVal == 3

OpsMaxSlices == 2

MaxFail == 3

\* the sets of the doc example of Counter
CounterExample == <<(<<1, 2, 4, 6, 7>>), (<<2, 3, 4, 5, 6, 7>>)>>

OpsInit ==
    /\ \/ /\ op \in DuoOps
          /\ ins \in (Sets(1..OpsMaxVal) \X Sets(1..OpsMaxVal))
                     \cup {CounterExample}
       \/ /\ op \in MultiOps
          /\ ins \in SliceLists(1..OpsMaxVal, OpsMaxSlices) \cup {ThreeSlices}
    /\ cur = <<>>
    /\ pc = "new"
    /\ out = <<>>
    /\ counter = 0
    /\ ncalls = 0
    /\ ret = "running"
    /\ iters = 0
    /\ kept = <<>>
    /\ fail_at \in 0..MaxFail

OpsNext ==
    \/ DuoNext
    \/ MultiNext

SpecOps == OpsInit /\ [][OpsNext]_vars

\* ------------------------------------------------------ functions of set.rs
\* Set::new_unchecked(slice): the slice seen as a Set
Set_new_unchecked(slice) == slice

\* Set::new(slice): is_sort_dedup(slice).map(|_| Self::new_unchecked(slice))
Set_new(slice) ==
    IF is_sort_dedup(slice) = "Ok" THEN Ok(Set_new_unchecked(slice))
    ELSE Err(is_sort_dedup(slice))

\* Slices that need not be sets: at most SetMaxLen elements of 1..SetMaxVal.
SetMaxVal == 2

SetMaxLen == 3

\* The sets that are searched hold elements of 1..SearchMaxVal; the targets
\* and the range bounds are drawn from 0..(SearchMaxVal + 1).
SearchMaxVal == 6

\* every sequence of at most n elements of Vals
Seqs(Vals, n) == UNION {[1..k -> Vals] : k \in 0..n}

\* a call of a function: `ins` is its argument and `out` what it returns
Call(o, result) ==
    /\ pc = "new" /\ op = o
    /\ out' = result
    /\ pc' = "done"
    /\ UNCHANGED <<op, ins, cur, fail_at, iters, kept, counter, ncalls, ret>>

CallSetNew == Call("Set::new", Set_new(ins))

CallSetBufNew == Call("SetBuf::new", SetBuf_new(ins))

\* std::ops::Bound
Included(x) == [bound |-> "Included", x |-> x]

Excluded(x) == [bound |-> "Excluded", x |-> x]

Unbounded == [bound |-> "Unbounded"]

\* every Bound over Vals
Bounds(Vals) ==
    {Included(x) : x \in Vals} \cup {Excluded(x) : x \in Vals} \cup {Unbounded}

\* a function that returns `value`, and one that panics
Return(value) == [panic |-> FALSE, value |-> value]

Panic == [panic |-> TRUE]

\* Set::range: `&self[left..right]` panics when left > right (right is never
\* beyond self.len())
range(self, start_bound, end_bound) ==
    LET l == exponential_search_by(self, start_bound.x)
        r == exponential_search_by(self, end_bound.x)
        left == IF start_bound.bound = "Included" THEN l.pos
                ELSE IF start_bound.bound = "Excluded"
                    THEN (IF l.ok THEN l.pos + 1 ELSE l.pos)
                ELSE 0
        right == IF end_bound.bound = "Included"
                    THEN (IF r.ok THEN r.pos + 1 ELSE r.pos)
                 ELSE IF end_bound.bound = "Excluded" THEN r.pos
                 ELSE Len(self)
    IN  IF left > right THEN Panic
        ELSE Return(Set_new_unchecked(SubSeq(self, left + 1, right)))

\* the set of tests::range_set and of the doc example of Set::range
RangeSet == <<1, 2, 4, 6, 7>>

\* Set::range(&self, range): ins = <<self, range.start_bound(), range.end_bound()>>
CallRange == Call("range", range(ins[1], ins[2], ins[3]))

\* A Vec of slices holds at most MaxVecLen slices of at most SliceMaxLen
\* elements of 1..SetMaxVal.
MaxVecLen == 2

SliceMaxLen == 2

\* vec_slices_into_sets_unchecked(vec): mem::transmute(vec)
vec_slices_into_sets_unchecked(vec) == vec

\* for slice in &vec { let res = is_sort_dedup(slice).err();
\*                     has_error = res.is_some(); errors.push(res); }
\* from slice i on; an Option is <<>> (None) or <<x>> (Some(x))
RECURSIVE SlicesLoop(_, _, _, _)
SlicesLoop(vec, i, has_error, errors) ==
    IF i > Len(vec) THEN [has_error |-> has_error, errors |-> errors]
    ELSE LET res == IF is_sort_dedup(vec[i]) = "Ok" THEN <<>>
                    ELSE <<is_sort_dedup(vec[i])>>
         IN  SlicesLoop(vec, i + 1, res # <<>>, Append(errors, res))

vec_slices_into_sets(vec) ==
    LET r == SlicesLoop(vec, 1, FALSE, <<>>)
    IN  IF r.has_error THEN Err(<<vec, r.errors>>)
        ELSE Ok(vec_slices_into_sets_unchecked(vec))

CallVecSlicesIntoSets ==
    Call("vec_slices_into_sets", vec_slices_into_sets(ins))

\* Set::exponential_search(&self, elem): ins = <<self, elem>>
CallExponentialSearch ==
    Call("exponential_search", exponential_search(ins[1], ins[2]))

SetInit ==
    /\ \/ /\ op \in {"Set::new", "SetBuf::new"}
          /\ ins \in Seqs(1..SetMaxVal, SetMaxLen)
       \/ /\ op = "exponential_search"
          /\ ins \in Sets(1..SearchMaxVal) \X (0..(SearchMaxVal + 1))
       \/ /\ op = "vec_slices_into_sets"
          /\ ins \in Seqs(Seqs(1..SetMaxVal, SliceMaxLen), MaxVecLen)
       \/ /\ op = "range"
          /\ ins \in (Sets(1..SearchMaxVal) \cup {RangeSet})
                     \X Bounds(0..(SearchMaxVal + 1))
                     \X Bounds(0..(SearchMaxVal + 1))
    /\ cur = <<>>
    /\ pc = "new"
    /\ Infallible
    /\ iters = 0
    /\ kept = <<>>

SetNext ==
    \/ CallSetNew
    \/ CallSetBufNew
    \/ CallExponentialSearch
    \/ CallRange
    \/ CallVecSlicesIntoSets

SpecSet == SetInit /\ [][SetNext]_vars

\* ------------------------------------------------------------------ SetBuf
\* The calls that build or overwrite a SetBuf without `unchecked` in their
\* name, one after the other: `cur` is the SetBuf the program holds, an
\* Option (<<>> is None, <<v>> is Some(SetBuf(v))), `ins` the Vec given to
\* the last call and `out` what the call returned.

\* [T]::sort_unstable: the least element first, then the rest sorted
RECURSIVE sort_unstable(_)
sort_unstable(v) ==
    IF v = <<>> THEN <<>>
    ELSE LET i == CHOOSE k \in DOMAIN v :
                      /\ \A j \in DOMAIN v : v[k] <= v[j]
                      /\ \A j \in 1..(k - 1) : v[j] # v[k]
         IN  <<v[i]>> \o sort_unstable(SubSeq(v, 1, i - 1) \o Drop(v, i))

\* Vec::dedup: of a run of equal consecutive elements only the first stays
RECURSIVE dedup(_)
dedup(v) ==
    IF Len(v) < 2 THEN v
    ELSE IF v[1] = v[2] THEN dedup(Tail(v))
    ELSE <<v[1]>> \o dedup(Tail(v))

\* sort_dedup_vec(&mut vec): vec.sort_unstable(); vec.dedup();
sort_dedup_vec(vec) == dedup(sort_unstable(vec))

\* SetBuf::from_dirty(vec)
SetBuf_from_dirty(vec) == sort_dedup_vec(vec)

\* D::Error::custom(e)
custom(e) == [custom |-> e]

\* the call returns `result` and leaves the program with the SetBuf `place`
SetBufCall(o, vec, result, place) ==
    /\ pc = "idle"
    /\ op' = o
    /\ ins' = vec
    /\ out' = result
    /\ cur' = place
    /\ pc' = "done"
    /\ UNCHANGED <<fail_at, iters, kept, counter, ncalls, ret>>

\* let set = SetBuf::new(vec)?: the SetBuf held is replaced on Ok
SetBufNew ==
    \E vec \in Seqs(1..SetMaxVal, SetMaxLen) :
        LET r == SetBuf_new(vec)
        IN  SetBufCall("SetBuf::new", vec, r, IF r.ok THEN <<r.value>> ELSE cur)

SetBufFromDirty ==
    \E vec \in Seqs(1..SetMaxVal, SetMaxLen) :
        SetBufCall("SetBuf::from_dirty", vec, SetBuf_from_dirty(vec),
                   <<SetBuf_from_dirty(vec)>>)

\* SetBuf::deserialize: `vec` is what Vec::deserialize(deserializer)? yields
SetBufDeserialize ==
    \E vec \in Seqs(1..SetMaxVal, SetMaxLen) :
        LET r == SetBuf_new(vec)
        IN  SetBufCall("deserialize", vec,
                       IF r.ok THEN Ok(r.value) ELSE Err(custom(r.error)),
                       IF r.ok THEN <<r.value>> ELSE cur)

\* SetBuf::deserialize_in_place(deserializer, place):
\* Vec::deserialize_in_place(deserializer, &mut place.0)?;
\* is_sort_dedup(&place.0).map_err(D::Error::custom)
SetBufDeserializeInPlace ==
    /\ cur # <<>>
    /\ \E vec \in Seqs(1..SetMaxVal, SetMaxLen) :
        SetBufCall("deserialize_in_place", vec,
                   IF is_sort_dedup(vec) = "Ok" THEN Ok(<<>>)
                   ELSE Err(custom(is_sort_dedup(vec))),
                   <<vec>>)

\* the program goes on with the SetBuf it holds
SetBufReturn ==
    /\ pc = "done"
    /\ pc' = "idle"
    /\ op' = "none"
    /\ ins' = <<>>
    /\ out' = <<>>
    /\ UNCHANGED <<cur, fail_at, iters, kept, counter, ncalls, ret>>

SetBufInit ==
    /\ op = "none"
    /\ ins = <<>>
    /\ cur = <<>>
    /\ pc = "idle"
    /\ Infallible
    /\ iters = 0
    /\ kept = <<>>

SetBufNext ==
    \/ SetBufNew
    \/ SetBufFromDirty
    \/ SetBufDeserialize
    \/ SetBufDeserializeInPlace
    \/ SetBufReturn

SpecSetBuf == SetBufInit /\ [][SetBufNext]_vars

\* ------------------------------------------------- operators fed to operators
\* Difference(a, b) and Intersection(a, b) are driven into a Vec each, and
\* the two Vecs are the inputs of Union: `ins` is <<a, b>>, then <<a, b, d>>
\* once the difference d is known, then <<d, i, a, b>> once the
\* intersection i is known too.

\* a new operator and a new empty Vec
Feed(o, inputs) ==
    /\ pc = "done"
    /\ op' = o
    /\ ins' = inputs
    /\ cur' = <<>>
    /\ pc' = "new"
    /\ out' = <<>>
    /\ counter' = 0
    /\ ncalls' = 0
    /\ ret' = "running"
    /\ iters' = 0
    /\ UNCHANGED <<fail_at, kept>>

\* let d = OpBuilder::new(a, b).difference().into_set_buf();
\* let i = OpBuilder::new(a, b).intersection() ...
FeedIntersection ==
    /\ op = "duo_difference"
    /\ Feed("duo_intersection", <<ins[1], ins[2], out>>)

\* ... .into_set_buf(); OpBuilder::new(&d, &i).union()
FeedUnion ==
    /\ op = "duo_intersection" /\ Len(ins) = 3
    /\ Feed("duo_union", <<ins[3], out, ins[1], ins[2]>>)

FedInit ==
    /\ op = "duo_difference"
    /\ ins \in Sets(1..DuoMaxVal) \X Sets(1..DuoMaxVal)
    /\ cur = <<>>
    /\ pc = "new"
    /\ Infallible
    /\ iters = 0
    /\ kept = <<>>

FedNext ==
    \/ DuoNew
    \/ DuoDifferenceStep
    \/ FeedIntersection
    \/ DuoIntersectionStep
    \/ FeedUnion
    \/ DuoUnionEnter
    \/ DuoUnionStep

SpecFed == FedInit /\ [][FedNext]_vars

\* ----------------------------------------------------------------- iterators
\* One iteration of the loop of `next` (the whole of `next` where it has no
\* loop): the new cursors, whether `next` returns, and the Option it returns
\* (<<>> is None, <<x>> is Some(x)).
INext(slices, returns, item) ==
    [cur |-> slices, returns |-> returns, item |-> item]

\* duo::UnionIter::next
DuoUnionIterNext(a, b) ==
    IF a = <<>> THEN
        IF b # <<>> THEN INext(<<a, Tail(b)>>, TRUE, <<b[1]>>)
        ELSE INext(<<a, b>>, TRUE, <<>>)
    ELSE IF b = <<>> THEN INext(<<Tail(a), b>>, TRUE, <<a[1]>>)
    ELSE IF a[1] < b[1] THEN INext(<<Tail(a), b>>, TRUE, <<a[1]>>)
    ELSE IF a[1] = b[1] THEN INext(<<Tail(a), Tail(b)>>, TRUE, <<a[1]>>)
    ELSE INext(<<a, Tail(b)>>, TRUE, <<b[1]>>)

\* duo::IntersectionIter::next
\* faulty variant: when `a` is exhausted an element of `b` is consumed
\* before None is returned
DuoIntersectionIterNext_DrainB(a, b) ==
    IF a = <<>> /\ b # <<>> THEN INext(<<a, Tail(b)>>, TRUE, <<>>)
    ELSE IF a = <<>> \/ b = <<>> THEN INext(<<a, b>>, TRUE, <<>>)
    ELSE IF a[1] = b[1] THEN INext(<<Tail(a), Tail(b)>>, TRUE, <<a[1]>>)
    ELSE IF a[1] < b[1] THEN
        INext(<<exponential_offset_ge(a, b[1]), b>>, FALSE, <<>>)
    ELSE INext(<<a, exponential_offset_ge(b, a[1])>>, FALSE, <<>>)

DuoIntersectionIterNext(a, b) ==
    IF a = <<>> \/ b = <<>> THEN INext(<<a, b>>, TRUE, <<>>)
    ELSE IF a[1] = b[1] THEN INext(<<Tail(a), Tail(b)>>, TRUE, <<a[1]>>)
    ELSE IF a[1] < b[1] THEN
        INext(<<exponential_offset_ge(a, b[1]), b>>, FALSE, <<>>)
    ELSE INext(<<a, exponential_offset_ge(b, a[1])>>, FALSE, <<>>)

\* faulty variant: an element of `a` found in `b` is returned too
DuoDifferenceIterNext_YieldEqual(a, b) ==
    IF a = <<>> THEN INext(<<a, b>>, TRUE, <<>>)
    ELSE LET first_a == a[1]
             b1 == exponential_offset_ge(b, first_a)
         IN  IF b1 = <<>> THEN INext(<<Tail(a), b1>>, TRUE, <<first_a>>)
             ELSE IF first_a = b1[1] THEN
                 INext(<<Tail(a), Tail(b1)>>, TRUE, <<first_a>>)
             ELSE INext(<<Tail(a), b1>>, TRUE, <<first_a>>)

\* duo::DifferenceIter::next
DuoDifferenceIterNext(a, b) ==
    IF a = <<>> THEN INext(<<a, b>>, TRUE, <<>>)
    ELSE LET first_a == a[1]
             b1 == exponential_offset_ge(b, first_a)
         IN  IF b1 = <<>> THEN INext(<<Tail(a), b1>>, TRUE, <<first_a>>)
             ELSE IF first_a = b1[1] THEN
                 INext(<<Tail(a), Tail(b1)>>, FALSE, <<>>)
             ELSE INext(<<Tail(a), b1>>, TRUE, <<first_a>>)

\* duo::SymmetricDifferenceIter::next
DuoSymmetricDifferenceIterNext(a, b) ==
    IF a # <<>> /\ b # <<>> THEN
        IF a[1] < b[1] THEN INext(<<Tail(a), b>>, TRUE, <<a[1]>>)
        ELSE IF a[1] = b[1] THEN
            LET off == ZipEqCount(a, b)
            IN  INext(<<Drop(a, off), Drop(b, off)>>, FALSE, <<>>)
        ELSE INext(<<a, Tail(b)>>, TRUE, <<b[1]>>)
    ELSE IF a # <<>> THEN INext(<<Tail(a), b>>, TRUE, <<a[1]>>)
    ELSE IF b # <<>> THEN INext(<<a, Tail(b)>>, TRUE, <<b[1]>>)
    ELSE INext(<<a, b>>, TRUE, <<>>)

\* duo::DifferenceByKeyIter::next (DifferenceByKeyIterOwning::next is the
\* same loop)
DuoDifferenceByKeyIterNext(a, b) ==
    IF a = <<>> THEN INext(<<a, b>>, TRUE, <<>>)
    ELSE LET first_a == f(a[1])
             b1 == exponential_offset_ge_by_key(b, first_a)
         IN  IF b1 = <<>> THEN INext(<<Tail(a), b1>>, TRUE, <<a[1]>>)
             ELSE IF first_a = g(b1[1]) THEN
                 INext(<<Tail(a), b1>>, FALSE, <<>>)
             ELSE INext(<<Tail(a), b1>>, TRUE, <<a[1]>>)

\* multi::UnionIter::next
MultiUnionIterNext(slices) ==
    LET m == two_minimums(slices) IN
    IF m.tag = "Two" THEN
        LET i == m.f[1]
            s == m.s[2]
        IN  IF m.f[2] # s THEN
                INext([slices EXCEPT ![i + 1] = Tail(@)], TRUE,
                      <<slices[i + 1][1]>>)
            ELSE INext(DropHeads(slices, s), TRUE, <<s>>)
    ELSE IF m.tag = "One" THEN
        LET i == m.f[1]
        IN  INext([slices EXCEPT ![i + 1] = Tail(@)], TRUE, <<slices[i + 1][1]>>)
    ELSE INext(slices, TRUE, <<>>)

\* multi::IntersectionIter::next
MultiIntersectionIterNext(slices) ==
    IF slices = <<>> THEN INext(slices, TRUE, <<>>)
    ELSE IF \E j \in DOMAIN slices : slices[j] = <<>> THEN
        INext(slices, TRUE, <<>>)
    ELSE LET e == test_equality(slices) IN
         IF e.equal THEN
             INext([j \in DOMAIN slices |-> Tail(slices[j])], TRUE, <<e.max>>)
         ELSE
             INext([j \in DOMAIN slices |->
                       exponential_offset_ge(slices[j], e.max)], FALSE, <<>>)

\* multi::DifferenceByKeyIter::next (DifferenceByKeyIterOwning::next is the
\* same loop); slices[1] is self.base, Tail(slices) is self.others
MultiDifferenceByKeyIterNext(slices) ==
    LET base == slices[1]
        others == Tail(slices)
    IN  IF base = <<>> THEN INext(slices, TRUE, <<>>)
        ELSE LET first_base == f(base[1])
                 r == ByKeyOthers(others, first_base, 1, <<>>)
             IN  IF r.minimum # <<>> /\ r.minimum[1] = first_base THEN
                     INext(<<Tail(base)>> \o r.others, FALSE, <<>>)
                 ELSE INext(<<Tail(base)>> \o r.others, TRUE, <<base[1]>>)

\* The effect of one iteration `r` of the loop of `next`.  The consumer
\* (`for x in iter`, `collect`) pushes every item and calls `next` again
\* until it returns None: `out` holds the items returned so far, and `ret`
\* tells how the iteration ended.
ApplyNext(r) ==
    /\ cur' = r.cur
    /\ out' = out \o r.item
    /\ ret' = IF ~r.returns THEN "continue"
              ELSE IF r.item = <<>> THEN "None" ELSE "Some"
    /\ pc' = IF r.returns /\ r.item = <<>> THEN "done" ELSE "loop"
    /\ iters' = iters + 1
    /\ UNCHANGED <<op, ins, fail_at, kept, counter, ncalls>>

DuoIterOps == {"duo_union_iter", "duo_intersection_iter",
               "duo_difference_iter", "duo_symmetric_difference_iter"}

MultiIterOps == {"multi_union_iter", "multi_intersection_iter"}

ByKeyIterOps == {"duo_difference_by_key_iter", "multi_difference_by_key_iter"}

\* iter(), into_iter(): the iterator starts on the slices of the operator
IterNew ==
    /\ pc = "new"
    /\ op \in DuoIterOps \cup MultiIterOps \cup ByKeyIterOps
    /\ cur' = ins
    /\ pc' = "loop"
    /\ UNCHANGED <<op, ins, fail_at, iters, kept, collector>>

DuoUnionIterStep ==
    /\ pc = "loop" /\ op = "duo_union_iter"
    /\ ApplyNext(DuoUnionIterNext(cur[1], cur[2]))

DuoIntersectionIterStep ==
    /\ pc = "loop" /\ op = "duo_intersection_iter"
    /\ ApplyNext(DuoIntersectionIterNext(cur[1], cur[2]))

DuoDifferenceIterStep ==
    /\ pc = "loop" /\ op = "duo_difference_iter"
    /\ ApplyNext(DuoDifferenceIterNext(cur[1], cur[2]))

DuoSymmetricDifferenceIterStep ==
    /\ pc = "loop" /\ op = "duo_symmetric_difference_iter"
    /\ ApplyNext(DuoSymmetricDifferenceIterNext(cur[1], cur[2]))

DuoDifferenceByKeyIterStep ==
    /\ pc = "loop" /\ op = "duo_difference_by_key_iter"
    /\ ApplyNext(DuoDifferenceByKeyIterNext(cur[1], cur[2]))

MultiUnionIterStep ==
    /\ pc = "loop" /\ op = "multi_union_iter"
    /\ ApplyNext(MultiUnionIterNext(cur))

MultiIntersectionIterStep ==
    /\ pc = "loop" /\ op = "multi_intersection_iter"
    /\ ApplyNext(MultiIntersectionIterNext(cur))

MultiDifferenceByKeyIterStep ==
    /\ pc = "loop" /\ op = "multi_difference_by_key_iter"
    /\ ApplyNext(MultiDifferenceByKeyIterNext(cur))

IterNext ==
    \/ IterNew
    \/ DuoUnionIterStep
    \/ DuoIntersectionIterStep
    \/ DuoDifferenceIterStep
    \/ DuoSymmetricDifferenceIterStep
    \/ DuoDifferenceByKeyIterStep
    \/ MultiUnionIterStep
    \/ MultiIntersectionIterStep
    \/ MultiDifferenceByKeyIterStep

\* ------------------------------------------------------------- every loop
\* Every operator, driven into a Vec by extend_collection or consumed
\* through its iterator.  A multi operator is given at most OpsMaxSlices
\* slices, the base of a by-key operator included.
LoopsInit ==
    /\ \/ /\ op \in DuoOps \cup DuoIterOps
          /\ ins \in (Sets(1..OpsMaxVal) \X Sets(1..OpsMaxVal))
                     \cup {CounterExample}
       \/ /\ op \in MultiOps \cup MultiIterOps
          /\ ins \in SliceLists(1..OpsMaxVal, OpsMaxSlices) \cup {ThreeSlices}
       \/ /\ op \in {"duo_difference_by_key", "duo_difference_by_key_iter"}
          /\ ins \in (Bases(MaxBaseLen) \X Sets(1..MaxKey))
                     \cup {DuoRelations, DuoExample}
       \/ /\ op \in {"multi_difference_by_key", "multi_difference_by_key_iter"}
          /\ \/ \E base \in Bases(MaxBaseLen),
                   others \in SliceLists(1..MaxKey, OpsMaxSlices - 1) :
                     ins = <<base>> \o others
             \/ ins = MultiExample
    /\ cur = <<>>
    /\ pc = "new"
    /\ Infallible
    /\ iters = 0
    /\ kept = <<>>

LoopsNext ==
    \/ DuoNext
    \/ MultiNext
    \/ ByKeyNext
    \/ IterNext

SpecLoops == LoopsInit /\ [][LoopsNext]_vars

\* -------------------------------------------- iterated, then extended
\* let x: Vec<_> = op.iter().collect();
\* let y: Vec<_> = op.clone().into_iter().collect();
\* let z: SetBuf<_> = op.into_set_buf();
\* `kept` is <<>>, then <<x>>, then <<x, y>>, and `out` is the Vec being
\* filled.

\* the operator an iterator is taken from
Operator(o) ==
    CASE o = "duo_union_iter" -> "duo_union"
      [] o = "duo_intersection_iter" -> "duo_intersection"
      [] o = "duo_difference_iter" -> "duo_difference"
      [] o = "duo_symmetric_difference_iter" -> "duo_symmetric_difference"
      [] o = "duo_difference_by_key_iter" -> "duo_difference_by_key"
      [] o = "multi_union_iter" -> "multi_union"
      [] o = "multi_intersection_iter" -> "multi_intersection"
      [] o = "multi_difference_by_key_iter" -> "multi_difference_by_key"

IterOps == DuoIterOps \cup MultiIterOps \cup ByKeyIterOps

\* the caller keeps the Vec of the run that has completed and goes on with
\* the operator `o` on `inputs` and a new empty Vec
Rerun(o, inputs) ==
    /\ pc = "done"
    /\ kept' = Append(kept, out)
    /\ op' = o
    /\ ins' = inputs
    /\ cur' = <<>>
    /\ pc' = "new"
    /\ out' = <<>>
    /\ counter' = 0
    /\ ncalls' = 0
    /\ ret' = "running"
    /\ iters' = 0
    /\ UNCHANGED fail_at

\* the same, on the same slices
Keep(o) == Rerun(o, ins)

\* impl IntoIterator for &Op was used; now impl IntoIterator for Op
IntoIter ==
    /\ op \in IterOps /\ kept = <<>>
    /\ Keep(op)

\* SetOperation::extend_collection of the same operator
ExtendCollection ==
    /\ op \in IterOps /\ Len(kept) = 1
    /\ Keep(Operator(op))

IteratedInit == LoopsInit /\ op \in IterOps

IteratedNext ==
    \/ IterNext
    \/ IntoIter
    \/ ExtendCollection
    \/ DuoNew
    \/ DuoUnionEnter
    \/ DuoUnionStep
    \/ DuoIntersectionStep
    \/ DuoDifferenceStep
    \/ DuoSymmetricDifferenceStep
    \/ MultiNew
    \/ MultiUnionEnter
    \/ MultiUnionStep
    \/ MultiIntersectionEnter
    \/ MultiIntersectionStep
    \/ ByKeyNext

SpecIterated == IteratedInit /\ [][IteratedNext]_vars

\* ------------------------------------------------------------------ Counter
\* A Counter that is given at most CounterMaxCalls calls, each with at most
\* CounterMaxLen elements; `ins` holds the calls it has received.
CounterMaxCalls == 4

CounterMaxLen == 3

\* n elements; a Counter does not look at them
Elems(n) == [i \in 1..n |-> 1]

Receive(c) ==
    /\ op = "counter"
    /\ ncalls < CounterMaxCalls
    /\ counter' = CounterCall(counter, c)
    /\ ins' = Append(ins, c)
    /\ ncalls' = ncalls + 1
    /\ UNCHANGED <<op, cur, out, pc, fail_at, ret, iters, kept>>

CounterPush == Receive(push(1))

CounterExtendFromSlice ==
    \E n \in 0..CounterMaxLen : Receive(extend_from_slice(Elems(n)))

CounterExtend ==
    \E n \in 0..CounterMaxLen : Receive(extend(Elems(n)))

\* Counter::new()
CounterInit ==
    /\ op = "counter"
    /\ ins = <<>>
    /\ cur = <<>>
    /\ pc = "idle"
    /\ Infallible
    /\ iters = 0
    /\ kept = <<>>

CounterNext ==
    \/ CounterPush
    \/ CounterExtendFromSlice
    \/ CounterExtend

SpecCounter == CounterInit /\ [][CounterNext]_vars

\* ------------------------------------------------------------------ kernels
\* The kernels the operators are built on, each called on its own.

\* two_minimums(slices): ins = slices
CallTwoMinimums ==
    Call("two_minimums", two_minimums(ins))

\* the match of two_minimums of clean/union.rs, arms in source order
CleanMinimumsMatch(minimums, current) ==
    LET min == current[2] IN
    IF minimums.tag = "One" THEN
        IF min < minimums.f[2] THEN Two(current, minimums.f)
        ELSE Two(minimums.f, current)
    ELSE IF minimums.tag = "Two" /\ min < minimums.f[2]
        THEN Two(current, minimums.f)
    ELSE IF minimums.tag = "Two" /\ min < minimums.s[2]
        THEN Two(minimums.f, current)
    ELSE IF minimums.tag = "Nothing"
        THEN One(current)
    ELSE minimums

RECURSIVE CleanMinimumsLoop(_, _, _)
CleanMinimumsLoop(slices, index, minimums) ==
    IF index >= Len(slices) THEN minimums
    ELSE LET slice == slices[index + 1] IN
         IF slice = <<>> THEN CleanMinimumsLoop(slices, index + 1, minimums)
         ELSE CleanMinimumsLoop(slices, index + 1,
                                CleanMinimumsMatch(minimums, <<index, slice[1]>>))

\* clean::union::two_minimums
clean_two_minimums(slices) == CleanMinimumsLoop(slices, 0, Nothing)

CallCleanTwoMinimums ==
    Call("clean::two_minimums", clean_two_minimums(ins))

\* for (i, x) in slice.iter().enumerate() { match f(x) { .. } }
RECURSIVE LinearLoop(_, _, _)
LinearLoop(ks, t, i) ==
    IF i >= Len(ks) THEN [ok |-> FALSE, pos |-> Len(ks)]
    ELSE IF ks[i + 1] < t THEN LinearLoop(ks, t, i + 1)
    ELSE IF ks[i + 1] = t THEN [ok |-> TRUE, pos |-> i]
    ELSE [ok |-> FALSE, pos |-> i]

\* faulty variant: the position is counted from 1
Linear_search_by_FromOne(ks, t) ==
    LET r == LinearLoop(ks, t, 0) IN [ok |-> r.ok, pos |-> r.pos + 1]

\* <Linear as Algorithm>::search_by
Linear_search_by(ks, t) == LinearLoop(ks, t, 0)

\* <Binary as Algorithm>::search_by: slice.binary_search_by(f)
Binary_search_by(ks, t) == binary_search_by(ks, t)

\* <Exponential as Algorithm>::search_by: the statements of
\* exponential_search_by of lib.rs
Exponential_search_by(ks, t) == exponential_search_by(ks, t)

\* the three strategies on the same slice and target, one after the other:
\* ins = <<slice, target>>
CallLinear ==
    Call("Linear::search_by", Linear_search_by(ins[1], ins[2]))

ThenBinary ==
    /\ op = "Linear::search_by"
    /\ Rerun("Binary::search_by", ins)

CallBinary ==
    Call("Binary::search_by", Binary_search_by(ins[1], ins[2]))

ThenExponential ==
    /\ op = "Binary::search_by"
    /\ Rerun("Exponential::search_by", ins)

CallExponential ==
    Call("Exponential::search_by", Exponential_search_by(ins[1], ins[2]))

KernelsInit ==
    /\ \/ /\ op \in {"two_minimums", "clean::two_minimums"}
          /\ ins \in SliceLists(1..MultiMaxVal, MaxSlices)
       \/ /\ op = "Linear::search_by"
          /\ ins \in Sets(1..SearchMaxVal) \X (0..(SearchMaxVal + 1))
    /\ cur = <<>>
    /\ pc = "new"
    /\ Infallible
    /\ iters = 0
    /\ kept = <<>>

KernelsNext ==
    \/ CallTwoMinimums
    \/ CallCleanTwoMinimums
    \/ CallLinear
    \/ ThenBinary
    \/ CallBinary
    \/ ThenExponential
    \/ CallExponential

SpecKernels == KernelsInit /\ [][KernelsNext]_vars

\* ------------------------------------------- Difference and DifferenceByKey
\* let d = OpBuilder::new(a, b).difference().into_set_buf();
\* let k = OpBuilderByKey::new(a, b, |x| *x, |x| *x).difference().into_set_buf();
\* The by-key operators of this model hold the elements of `a` as Foo
\* records and read the key with f; an element x of `a` is given to the
\* second run as Foo(x, x), of which the key is x itself.
Wrap(a) == [i \in DOMAIN a |-> Foo(a[i], a[i])]

Unwrap(a) == [i \in DOMAIN a |-> f(a[i])]

ThenByKey ==
    /\ op = "duo_difference"
    /\ Rerun("duo_difference_by_key", <<Wrap(ins[1]), ins[2]>>)

TwoDifferencesInit ==
    /\ op = "duo_difference"
    /\ ins \in Sets(1..DuoMaxVal) \X Sets(1..DuoMaxVal)
    /\ cur = <<>>
    /\ pc = "new"
    /\ Infallible
    /\ iters = 0
    /\ kept = <<>>

TwoDifferencesNext ==
    \/ DuoNew
    \/ DuoDifferenceStep
    \/ ThenByKey
    \/ ByKeyNew
    \/ DuoDifferenceByKeyStep

SpecTwoDifferences == TwoDifferencesInit /\ [][TwoDifferencesNext]_vars

\* ------------------------------------------------------- clean::Difference
\* The earlier operator over plain slices (clean/difference.rs), driven into
\* a Vec by extend_vec.

\* match slice.iter().position(|x| x >= elem) { Some(pos) => &slice[pos..], None => &[] }
offset_ge(slice, elem) == Drop(slice, TakeWhileLt(slice, elem))

\* others.iter().filter_map(|v| v.first()).min(): an Option, <<>> or <<x>>
MinOfFirsts(others) ==
    LET firsts == {others[j][1] : j \in {k \in DOMAIN others : others[k] # <<>>}}
    IN  IF firsts = {} THEN <<>>
        ELSE <<CHOOSE x \in firsts : \A y \in firsts : x <= y>>

\* One iteration of `while !base.is_empty()`; slices[1] is base and
\* Tail(slices) is others.  With no slice at all extend_vec returns before
\* the loop.
CleanDifferenceBody(slices) ==
    IF slices = <<>> THEN MIter(slices, <<>>, TRUE)
    ELSE
        LET base == slices[1]
            others == Tail(slices)
            min == MinOfFirsts(others)
        IN  IF base = <<>> THEN MIter(slices, <<>>, TRUE)
            ELSE IF min # <<>> THEN
                LET add == TakeWhileLt(base, min[1])
                    base1 == IF add < Len(base) THEN Drop(base, add + 1)
                             ELSE <<>>
                    others1 == IF base1 # <<>>
                               THEN [j \in DOMAIN others |->
                                        offset_ge(others[j], base1[1])]
                               ELSE others
                IN  MIter(<<base1>> \o others1, <<extend(Take(base, add))>>,
                          FALSE)
            ELSE MIter(slices, <<extend_from_slice(base)>>, TRUE)

\* Difference::new(slices)
CleanDifferenceNew ==
    /\ pc = "new"
    /\ op = "clean_difference"
    /\ cur' = ins
    /\ pc' = "loop"
    /\ UNCHANGED <<op, ins, fail_at, iters, kept, collector>>

\* extend_vec
CleanDifferenceStep ==
    /\ pc = "loop" /\ op = "clean_difference"
    /\ ApplyDiscard(CleanDifferenceBody(cur))

CleanInit ==
    /\ op = "clean_difference"
    /\ ins \in SliceLists(1..MultiMaxVal, MaxSlices) \cup {ThreeSlices}
    /\ cur = <<>>
    /\ pc = "new"
    /\ Infallible
    /\ iters = 0
    /\ kept = <<>>

CleanNext ==
    \/ CleanDifferenceNew
    \/ CleanDifferenceStep

SpecClean == CleanInit /\ [][CleanNext]_vars

\* ------------------------------------------------- next, after None
\* An iterator that has returned None is asked again: the caller keeps the
\* items it has received and calls `next` once more, at most MaxAgain
\* times.
MaxAgain == 3

NextAgain ==
    /\ pc = "done" /\ op \in IterOps /\ ret = "None"
    /\ Len(kept) < MaxAgain
    /\ kept' = Append(kept, out)
    /\ pc' = "loop"
    /\ UNCHANGED <<op, ins, cur, fail_at, iters, collector>>

FusedInit == LoopsInit /\ op \in IterOps

FusedNext ==
    \/ IterNext
    \/ NextAgain

SpecFused == FusedInit /\ [][FusedNext]_vars

\* ------------------------------------------------------------------- claims
Done(o) == op = o /\ pc = "done"

\* C1: duo Union driven to completion outputs the sorted set union of a and b,
\* every element once.
C1_DuoUnion ==
    Done("duo_union") => out = SortSet(Range(ins[1]) \cup Range(ins[2]))

\* a union was completed whose inputs overlap without being equal
C1_Witness ==
    /\ Done("duo_union")
    /\ Range(ins[1]) \cap Range(ins[2]) # {}
    /\ Range(ins[1]) \ Range(ins[2]) # {}
    /\ Range(ins[2]) \ Range(ins[1]) # {}
    /\ Len(out) = DuoMaxVal

\* C2: duo Intersection driven to completion outputs exactly the elements
\* present in both inputs, in increasing order.
C2_DuoIntersection ==
    Done("duo_intersection") => out = SortSet(Range(ins[1]) \cap Range(ins[2]))

C2_Witness ==
    /\ Done("duo_intersection")
    /\ Len(out) >= 2
    /\ Range(ins[1]) \ Range(ins[2]) # {}
    /\ Range(ins[2]) \ Range(ins[1]) # {}

\* C3: duo Difference driven to completion outputs exactly the elements of a
\* that are not in b, in increasing order, also when the only common element
\* is the last element of a.
C3_DuoDifference ==
    Done("duo_difference") => out = SortSet(Range(ins[1]) \ Range(ins[2]))

\* the special case of the claim: a = [1, 2, 3], b = [3]
C3_Witness ==
    /\ Done("duo_difference")
    /\ ins = <<(<<1, 2, 3>>), (<<3>>)>>
    /\ out = <<1, 2>>

\* C4: duo SymmetricDifference driven to completion outputs exactly the
\* elements present in exactly one of a and b, in increasing order.
C4_DuoSymmetricDifference ==
    Done("duo_symmetric_difference") =>
        out = SortSet((Range(ins[1]) \ Range(ins[2]))
                      \cup (Range(ins[2]) \ Range(ins[1])))

C4_Witness ==
    /\ Done("duo_symmetric_difference")
    /\ Range(ins[1]) \cap Range(ins[2]) # {}
    /\ Range(ins[1]) \ Range(ins[2]) # {}
    /\ Range(ins[2]) \ Range(ins[1]) # {}

\* the set of the elements of all the slices
UnionAll(slices) == UNION {Range(slices[j]) : j \in DOMAIN slices}

\* the number of slices that hold x
Occurrences(slices, x) == Cardinality({j \in DOMAIN slices : x \in Range(slices[j])})

\* C5: multi Union driven to completion outputs the sorted set union of all
\* its inputs, every element once however many inputs hold it.
C5_MultiUnion ==
    Done("multi_union") => out = SortSet(UnionAll(ins))

\* a union of three slices was completed in which one element is in all three
\* and another in exactly two
C5_Witness ==
    /\ Done("multi_union")
    /\ Len(ins) = 3
    /\ \E x \in UnionAll(ins) : Occurrences(ins, x) = 3
    /\ \E x \in UnionAll(ins) : Occurrences(ins, x) = 2
    /\ \E x \in UnionAll(ins) : Occurrences(ins, x) = 1

\* set intersection folded over the inputs, starting from the first
RECURSIVE FoldIntersection(_, _, _)
FoldIntersection(slices, j, acc) ==
    IF j > Len(slices) THEN acc
    ELSE FoldIntersection(slices, j + 1, acc \cap Range(slices[j]))

\* C6: with at least one input, multi Intersection driven to completion
\* outputs exactly the elements present in every input, in increasing order.
C6_MultiIntersection ==
    (Done("multi_intersection") /\ Len(ins) >= 1) =>
        /\ out = SortSet(FoldIntersection(ins, 2, Range(ins[1])))
        /\ \A x \in UnionAll(ins) :
               x \in Range(out) <=> Occurrences(ins, x) = Len(ins)

\* three different slices were intersected; they share an element, and
\* another element is in two of them only
C6_Witness ==
    /\ Done("multi_intersection")
    /\ Len(ins) = 3
    /\ ins[1] # ins[2] /\ ins[2] # ins[3] /\ ins[1] # ins[3]
    /\ out # <<>>
    /\ \E x \in UnionAll(ins) : Occurrences(ins, x) = 2

\* C7: multi Difference takes the first slice as base and the rest as others,
\* ignores the empty others, and driven to completion outputs the base
\* elements present in none of the others, in increasing order.
C7_MultiDifference ==
    /\ (op = "multi_difference" /\ pc # "new") =>
           \A j \in 2..Len(cur) : cur[j] # <<>>
    /\ Done("multi_difference") =>
           out = SortSet((IF ins = <<>> THEN {} ELSE Range(ins[1]))
                         \ UnionAll(IF ins = <<>> THEN <<>> ELSE Tail(ins)))

\* the example of the claim
C7_Witness ==
    /\ Done("multi_difference")
    /\ ins = ThreeSlices
    /\ out = <<1, 6>>

\* the two-set symmetric difference folded over the inputs
RECURSIVE FoldSymmetricDifference(_, _, _)
FoldSymmetricDifference(slices, j, acc) ==
    IF j > Len(slices) THEN acc
    ELSE FoldSymmetricDifference(slices, j + 1,
             (acc \ Range(slices[j])) \cup (Range(slices[j]) \ acc))

\* C8: multi SymmetricDifference driven to completion outputs exactly the
\* elements that appear in an odd number of inputs, in increasing order.
C8_MultiSymmetricDifference ==
    Done("multi_symmetric_difference") =>
        /\ out = SortSet({x \in UnionAll(ins) : Occurrences(ins, x) % 2 = 1})
        /\ out = SortSet(FoldSymmetricDifference(ins, 1, {}))

\* three slices, with an element in all three (kept) and one in two (dropped)
C8_Witness ==
    /\ Done("multi_symmetric_difference")
    /\ Len(ins) = 3
    /\ \E x \in Range(out) : Occurrences(ins, x) = 3
    /\ \E x \in UnionAll(ins) : Occurrences(ins, x) = 2

\* the keys of the elements of all the others
OtherKeys(others) == {g(y) : y \in UnionAll(others)}

\* the elements of the base whose key is the key of no element of the others,
\* in base order
KeptOfBase(base, others) ==
    SelectSeq(base, LAMBDA x : f(x) \notin OtherKeys(others))

\* C9: duo DifferenceByKey, for a base with non-decreasing keys and a `b`
\* with strictly increasing keys, outputs in base order exactly the base
\* elements whose key is the key of no element of `b`: a run of equal keys
\* is dropped as a whole or kept as a whole.
C9_DuoDifferenceByKey ==
    Done("duo_difference_by_key") =>
        /\ out = KeptOfBase(ins[1], <<ins[2]>>)
        /\ \A i \in DOMAIN ins[1] :
               (ins[1][i] \in Range(out)) <=>
                   (f(ins[1][i]) \notin Range(Keys(ins[2])))

\* tests::difference_non_empty_duplicate_relations: the run of key 1 is
\* dropped, the run of key 2 is kept
C9_Witness ==
    /\ Done("duo_difference_by_key")
    /\ ins = DuoRelations
    /\ out = <<Foo(2, 9), Foo(2, 10)>>

\* C10: multi DifferenceByKey outputs, in base order, exactly the base
\* elements whose key is among the keys of none of the others; with no
\* others, the whole base.
C10_MultiDifferenceByKey ==
    Done("multi_difference_by_key") =>
        /\ out = KeptOfBase(ins[1], Tail(ins))
        /\ Len(ins) = 1 => out = ins[1]

\* the doc example: keys 2 and 4 are in the others, the run of key 1 is kept
C10_Witness ==
    /\ Done("multi_difference_by_key")
    /\ ins = MultiExample
    /\ out = <<Foo(1, 6), Foo(1, 7), Foo(1, 8)>>

\* C11: every duo and multi operator, on strictly increasing inputs, leaves
\* a strictly increasing sequence in a Vec, so that the SetBuf built by
\* into_set_buf without validation is the one the checked constructor
\* SetBuf::new accepts.
C11_OutputIsSet ==
    (pc = "done" /\ fail_at = 0) =>
        SetBuf_new(out) = Ok(into_set_buf(out))

\* a multi operator has pushed single elements between runs and completed
\* with an output of three elements
C11_Witness ==
    /\ pc = "done" /\ fail_at = 0
    /\ op = "multi_union"
    /\ Len(ins) = 2 /\ ins[1] # ins[2]
    /\ Len(out) = OpsMaxVal
    /\ ncalls >= 4

\* the adjacent pairs of s that are not strictly increasing
Offending(s) == {i \in 1..(Len(s) - 1) : ~(s[i] < s[i + 1])}

\* the first of them from the start
FirstOffending(s) == CHOOSE i \in Offending(s) : \A j \in Offending(s) : i <= j

\* C12: Set::new and SetBuf::new succeed exactly when every adjacent pair
\* (x, y) of the sequence has x < y; otherwise they fail with the error of the
\* first offending pair from the start, NotDedup when the pair is equal and
\* NotSort when its first element is the greater.
C12_CheckedConstructors ==
    (pc = "done" /\ op \in {"Set::new", "SetBuf::new"}) =>
        IF Offending(ins) = {} THEN out = Ok(ins)
        ELSE LET i == FirstOffending(ins)
             IN  out = Err(IF ins[i] = ins[i + 1] THEN "NotDedup" ELSE "NotSort")

\* a sequence was refused whose first offending pair is out of order and
\* whose second is a duplicate
C12_Witness ==
    /\ pc = "done" /\ op = "SetBuf::new"
    /\ ins = <<2, 1, 1>>
    /\ out = Err("NotSort")

\* C13: for every strictly increasing s, the empty and the one-element
\* sequences included, and every target x, exponential_search(s, x) returns
\* Ok(i) exactly when s[i] = x (i counted from 0), and otherwise Err(i) with
\* every element before i below x and every element from i on above x.
C13_ExponentialSearch ==
    (pc = "done" /\ op = "exponential_search") =>
        LET s == ins[1]
            x == ins[2]
            i == out.pos
        IN  /\ out.ok <=> x \in Range(s)
            /\ out.ok => i \in 0..(Len(s) - 1) /\ s[i + 1] = x
            /\ ~out.ok =>
                /\ i \in 0..Len(s)
                /\ \A j \in 1..i : s[j] < x
                /\ \A j \in (i + 1)..Len(s) : s[j] > x

\* an absent target was placed inside a slice after the probes at 1, 2 and 4
C13_Witness ==
    /\ pc = "done" /\ op = "exponential_search"
    /\ ins = <<(<<1, 2, 3, 4, 6>>), 5>>
    /\ out = [ok |-> FALSE, pos |-> 4]

\* x lies within the range (start_bound, end_bound): RangeBounds::contains
InRange(x, start_bound, end_bound) ==
    /\ start_bound.bound = "Included" => start_bound.x <= x
    /\ start_bound.bound = "Excluded" => start_bound.x < x
    /\ end_bound.bound = "Included" => x <= end_bound.x
    /\ end_bound.bound = "Excluded" => x < end_bound.x

\* C14: for every set s and every range r made of any combination of
\* Included, Excluded and Unbounded start and end bounds, s.range(r) returns
\* the view of exactly the elements of s that lie within r.
C14_Range ==
    (pc = "done" /\ op = "range") =>
        out = Return(SelectSeq(ins[1], LAMBDA x : InRange(x, ins[2], ins[3])))

\* Counter::get
Counter_get == counter

\* C15: for every operator and every valid input, once the operator has been
\* driven into a Counter, Counter::get is the length of the sequence that the
\* same operator appends to an initially empty Vec (4 for the intersection of
\* [1, 2, 4, 6, 7] and [2, 3, 4, 5, 6, 7]).
C15_Counter ==
    /\ (pc = "done" /\ fail_at = 0) => Counter_get = Len(out)
    /\ (pc = "done" /\ fail_at = 0 /\ op = "duo_intersection"
            /\ ins = CounterExample) => Counter_get = 4

\* the example of the claim: the runs [2], [4] and [6, 7] were counted
C15_Witness ==
    /\ pc = "done" /\ fail_at = 0
    /\ op = "duo_intersection" /\ ins = CounterExample
    /\ ncalls = 3
    /\ Counter_get = 4 /\ out = <<2, 4, 6, 7>>

\* a call on the collector has returned an error
Failed == fail_at \in 1..ncalls

IsPrefix(s, t) == Len(s) <= Len(t) /\ SubSeq(t, 1, Len(s)) = s

\* C16: when a call on the collector (reserve, push, extend_from_slice or
\* extend) made by the extend_collection of any operator returns an error,
\* the operator makes no further call on the collector and returns that
\* error; what the earlier calls appended stays in the collector.
C16_FailFast ==
    [][/\ Failed => UNCHANGED <<ncalls, out>>
       /\ Failed' => ret' = "Err"
       /\ IsPrefix(out, out')]_vars

\* the conversion error of every slice of vec, None for a valid slice
ConversionErrors(vec) ==
    [i \in DOMAIN vec |->
        IF Offending(vec[i]) = {} THEN <<>>
        ELSE LET k == FirstOffending(vec[i])
             IN  <<IF vec[i][k] = vec[i][k + 1] THEN "NotDedup" ELSE "NotSort">>]

\* C17: vec_slices_into_sets returns Ok (a Vec of Sets) only if all the
\* slices are sorted and deduplicated; if a slice, at any position of the
\* vector, is not, it returns Err with the original vector and the list of
\* the conversion error of every slice (None for the valid ones).
C17_VecSlicesIntoSets ==
    (pc = "done" /\ op = "vec_slices_into_sets") =>
        /\ out.ok => \A i \in DOMAIN ins : Offending(ins[i]) = {}
        /\ (\E i \in DOMAIN ins : Offending(ins[i]) # {}) =>
               out = Err(<<ins, ConversionErrors(ins)>>)

StrictlyIncreasing(s) == \A i, j \in DOMAIN s : i < j => s[i] < s[j]

\* C18: no sequence of calls of SetBuf::new, SetBuf::from_dirty, deserialize
\* and deserialize_in_place leaves a SetBuf that is not strictly increasing,
\* whether the calls returned Ok or Err; and the SetBuf that from_dirty
\* returns holds exactly the distinct elements of its input.
C18_SetBufInvariant ==
    /\ \A i \in DOMAIN cur : StrictlyIncreasing(cur[i])
    /\ (pc = "done" /\ op = "SetBuf::from_dirty") =>
           (StrictlyIncreasing(out) /\ Range(out) = Range(ins))

\* C20: for all strictly increasing a and b, the duo Union of the outputs of
\* duo Difference(a, b) and duo Intersection(a, b) is exactly a.
C20_DifferenceUnionIntersection ==
    (pc = "done" /\ op = "duo_union") => out = ins[3]

\* a union was completed whose two inputs, the difference and the
\* intersection, are both non-empty and interleaved
C20_Witness ==
    /\ pc = "done" /\ op = "duo_union"
    /\ ins[3] = <<1, 2, 3, 4>>
    /\ ins[1] = <<1, 3>>
    /\ ins[2] = <<2, 4>>
    /\ out = <<1, 2, 3, 4>>

\* the total number of input elements not yet consumed, over all cursors
RECURSIVE Unconsumed(_)
Unconsumed(slices) ==
    IF slices = <<>> THEN 0 ELSE Len(slices[1]) + Unconsumed(Tail(slices))

\* C19: for every operator on valid inputs, each iteration of its main loop,
\* in extend_collection and inside the `next` of its iterator, strictly
\* decreases the total number of unconsumed input elements over all cursors
\* or leaves the loop; so every operator completes after finitely many
\* iterations.
C19_Termination ==
    /\ [][pc = "loop" =>
            \/ Unconsumed(cur') < Unconsumed(cur)
            \/ pc' = "done"
            \/ ret' \in {"Some", "None"}]_vars
    /\ [](iters <= Unconsumed(ins) + 1)

\* an iterator has gone through an iteration that neither returned nor
\* emitted, and the operator has completed with items returned
C19_Witness ==
    /\ pc = "done"
    /\ op = "multi_intersection_iter"
    /\ ins = <<(<<1, 3>>), (<<2, 3>>)>>
    /\ out = <<3>>

\* C21: every multi operator (union, intersection, difference) given zero
\* inputs or a single empty input outputs the empty sequence, and given a
\* single input a outputs exactly a.
C21_MultiDegenerate ==
    (pc = "done" /\ op \in {"multi_union", "multi_intersection",
                            "multi_difference"}) =>
        /\ (ins = <<>> \/ ins = <<(<<>>)>>) => out = <<>>
        /\ Len(ins) = 1 => out = ins[1]

\* tests::one_slice: the difference of the single slice [1, 2, 3]
C21_Witness ==
    /\ Done("multi_difference")
    /\ ins = <<(<<1, 2, 3>>)>>
    /\ out = <<1, 2, 3>>

\* C22: for every operator that offers an iterator and every valid input,
\* the items returned by `next` until None are, element for element, what
\* the same operator appends through extend_collection; and the iterator
\* taken by reference leaves the slices of the operator as they were, so the
\* consuming iterator taken afterwards returns the same items.
C22_IteratorAgrees ==
    /\ [](Len(kept) >= 1 /\ pc = "done" => out = kept[1])
    /\ [][ins' = ins]_vars

\* the three runs of multi Union on ThreeSlices
C22_Witness ==
    /\ Done("multi_union")
    /\ ins = ThreeSlices
    /\ kept = <<(<<1, 2, 3, 4, 5, 6, 7>>), (<<1, 2, 3, 4, 5, 6, 7>>)>>
    /\ out = <<1, 2, 3, 4, 5, 6, 7>>

\* the sizes of the inputs of the calls `cs`, added up
RECURSIVE SumOfSizes(_)
SumOfSizes(cs) ==
    IF cs = <<>> THEN 0 ELSE Len(cs[1].elems) + SumOfSizes(Tail(cs))

\* C23: after any sequence of push, extend_from_slice and extend calls on a
\* Counter, its count is the sum of the sizes of all the inputs received,
\* clamped at usize::MAX: it never wraps around and never decreases.
C23_CounterSaturates ==
    /\ [](op = "counter" => Counter_get = Min2(SumOfSizes(ins), usize_MAX))
    /\ [][counter' >= counter]_vars

\* the Counter has received more than usize::MAX elements, by calls of the
\* three kinds
C23_Witness ==
    /\ op = "counter"
    /\ SumOfSizes(ins) > usize_MAX
    /\ Counter_get = usize_MAX
    /\ {ins[i].call : i \in DOMAIN ins} = {"push", "extend_from_slice", "extend"}

\* the 0-based indexes of the non-empty cursors
NonEmpty(slices) == {i \in 0..(Len(slices) - 1) : slices[i + 1] # <<>>}

\* the least of the heads of the cursors with an index in I
LeastHead(slices, I) ==
    CHOOSE v \in {slices[i + 1][1] : i \in I} :
        \A i \in I : v <= slices[i + 1][1]

\* C24: two_minimums (of two_minimums.rs and of clean/union.rs) over k
\* cursors returns Nothing iff all cursors are
\* empty; One((i, v)) iff exactly one cursor is non-empty, i its index and v
\* its head; and otherwise Two((i, f), (j, s)) with i # j, f the least head
\* over all the non-empty cursors, found at index i, and s the least head
\* among the non-empty cursors other than i; so f <= s, with equality
\* exactly when the least head occurs in at least two cursors.
C24_TwoMinimums ==
    (pc = "done" /\ op \in {"two_minimums", "clean::two_minimums"}) =>
        LET I == NonEmpty(ins) IN
        /\ out.tag = "Nothing" <=> I = {}
        /\ out.tag = "One" <=> Cardinality(I) = 1
        /\ out.tag = "One" => out.f[1] \in I /\ out.f[2] = ins[out.f[1] + 1][1]
        /\ out.tag = "Two" <=> Cardinality(I) >= 2
        /\ out.tag = "Two" =>
            LET i == out.f[1]
                j == out.s[1]
            IN  /\ i \in I /\ j \in I /\ i # j
                /\ out.f[2] = ins[i + 1][1]
                /\ out.s[2] = ins[j + 1][1]
                /\ out.f[2] = LeastHead(ins, I)
                /\ out.s[2] = LeastHead(ins, I \ {i})
                /\ out.f[2] <= out.s[2]
                /\ out.f[2] = out.s[2] <=>
                       Cardinality({k \in I : ins[k + 1][1] = out.f[2]}) >= 2

\* the least head is found in the second and in the third of three cursors
C24_Witness ==
    /\ pc = "done" /\ op = "two_minimums"
    /\ ins = <<(<<2, 3>>), (<<1>>), (<<1, 2>>)>>
    /\ out = Two(<<1, 1>>, <<2, 1>>)

\* C25: for all strictly increasing a and b, duo Difference, which advances
\* b by one after an equal match, outputs what duo DifferenceByKey outputs
\* on the same inputs with identity projections, which leaves b in place
\* after an equal match.
C25_DifferenceAgrees ==
    (pc = "done" /\ op = "duo_difference_by_key") => Unwrap(out) = kept[1]

\* both runs met two equal matches and kept the elements around them
C25_Witness ==
    /\ pc = "done" /\ op = "duo_difference_by_key"
    /\ Unwrap(ins[1]) = <<1, 2, 3, 4, 5>>
    /\ ins[2] = <<2, 4>>
    /\ kept = <<(<<1, 3, 5>>)>>
    /\ Unwrap(out) = <<1, 3, 5>>

\* C26: in duo DifferenceByKey, in extend_collection and in the `next` of
\* its iterator, a loop step taken when the key of head(a) equals the key of
\* head(b) removes exactly the head from a, leaves the b cursor as it is,
\* and emits nothing.
C26_KeyedMatch ==
    [][(/\ op \in {"duo_difference_by_key", "duo_difference_by_key_iter"}
        /\ pc = "loop"
        /\ cur[1] # <<>> /\ cur[2] # <<>>
        /\ f(cur[1][1]) = g(cur[2][1]))
       => /\ cur'[1] = Tail(cur[1])
          /\ cur'[2] = cur[2]
          /\ out' = out
          /\ ncalls' = ncalls
          /\ pc' = "loop"]_vars

\* the example of the documentation after two steps on the run of key 1, of
\* which one element is left
C26_Witness ==
    /\ op = "duo_difference_by_key" /\ pc = "loop"
    /\ ins = DuoRelations
    /\ iters = 2
    /\ cur = <<(<<Foo(1, 8), Foo(2, 9), Foo(2, 10)>>), (<<1, 3, 4, 5>>)>>
    /\ out = <<>>

\* C27: clean::Difference (extend_vec, into_vec), for every list of strictly
\* increasing slices, outputs exactly the elements of the first slice that
\* are present in none of the other slices, in increasing order; so
\* [1,2,3] minus [2,4] is [1,3], [1,2,3] minus [3] is [1,2], and
\* [1,2,3,6,7] minus [2,3,4] and [3,4,5,7] is [1,6].
C27_CleanDifference ==
    Done("clean_difference") =>
        out = SortSet((IF ins = <<>> THEN {} ELSE Range(ins[1]))
                      \ UnionAll(IF ins = <<>> THEN <<>> ELSE Tail(ins)))

\* C28: for every strictly increasing slice and every target, the three
\* search strategies Linear, Binary and Exponential return the same Ok or
\* Err; and the window [index / 2, min(index + 1, len)) that Exponential
\* hands to the binary search is a valid sub-range of the slice and holds
\* the match or the insertion point.
C28_SearchStrategies ==
    (pc = "done" /\ op = "Exponential::search_by") =>
        LET slice == ins[1]
            index == ProbeIndex(slice, ins[2], 1)
            half_bound == index \div 2
            bound == Min2(index + 1, Len(slice))
        IN  /\ kept[1] = out
            /\ kept[2] = out
            /\ 0 <= half_bound /\ half_bound <= bound /\ bound <= Len(slice)
            /\ kept[1].ok => kept[1].pos \in half_bound..(bound - 1)
            /\ ~kept[1].ok => kept[1].pos \in half_bound..bound

\* the three strategies have placed an absent target in the last window of
\* a slice of five elements
C28_Witness ==
    /\ pc = "done" /\ op = "Exponential::search_by"
    /\ ins = <<(<<1, 2, 3, 4, 6>>), 5>>
    /\ kept = <<[ok |-> FALSE, pos |-> 4], [ok |-> FALSE, pos |-> 4]>>
    /\ out = [ok |-> FALSE, pos |-> 4]


IsSuffix(s, t) == Len(s) <= Len(t) /\ Drop(t, Len(t) - Len(s)) = s

\* C29: at every iteration boundary of the extend_collection of duo Union
\* and of multi Union on valid inputs, every element emitted so far is
\* strictly less than every element still unconsumed in any cursor, each
\* cursor is a suffix of its original input, and the output so far is a
\* prefix of the final output.
C29_UnionBoundary ==
    /\ [](op \in {"duo_union", "multi_union"} /\ pc = "loop" =>
            /\ \A k \in DOMAIN out : \A j \in DOMAIN cur :
                   \A n \in DOMAIN cur[j] : out[k] < cur[j][n]
            /\ \A j \in DOMAIN cur : IsSuffix(cur[j], ins[j])
            /\ IsPrefix(out, SortSet(UnionAll(ins))))
    /\ [][/\ op \in {"duo_union", "multi_union"} => IsPrefix(out, out')
          /\ op \in {"duo_union", "multi_union"} /\ pc' = "done" =>
                 out' = SortSet(UnionAll(ins))]_vars

\* multi Union on ThreeSlices after two iterations: 1, 2 and 3 are out and
\* every cursor starts above 3
C29_Witness ==
    /\ op = "multi_union" /\ pc = "loop"
    /\ ins = ThreeSlices
    /\ cur = <<(<<6, 7>>), (<<4>>), (<<4, 5, 7>>)>>
    /\ out = <<1, 2, 3>>


\* C30: every operator iterator is fused: once `next` has returned None,
\* every later call to `next` returns None too, yields no item and leaves
\* the cursors of the iterator unchanged, however many calls follow.
C30_Fused ==
    /\ [][ret = "None" =>
            /\ cur' = cur
            /\ out' = out
            /\ ret' = "None"
            /\ pc' = IF pc = "done" THEN "loop" ELSE "done"]_vars
    /\ [](\A n \in DOMAIN kept : kept[n] = out)

\* the iterator of multi Intersection has returned None on ThreeSlices with
\* elements left in two cursors, and then None again three times
C30_Witness ==
    /\ op = "multi_intersection_iter" /\ pc = "done" /\ ret = "None"
    /\ ins = ThreeSlices
    /\ cur = <<(<<6, 7>>), <<>>, (<<7>>)>>
    /\ out = <<3>>
    /\ kept = <<(<<3>>), (<<3>>), (<<3>>)>>

====
